---- MODULE Spec2Model ----
(***************************************************************************)
(* A model of the bag validator of APTrust/easy-store (DART):              *)
(* bagit/validator.js (src/unnamed/part_001), the constants it uses        *)
(* (src/unnamed/part_004) and the collaborators it drives (reader plugins, *)
(* BagItFile, BagItProfile, KeyValueCollection).                           *)
(*                                                                         *)
(* Strings the code takes apart (paths, file names, tag values) are        *)
(* sequences of tokens: a token is a separator character ("/", "-", ".")   *)
(* or a maximal run of other characters.  "manifest-md5.txt" is            *)
(* <<"manifest", "-", "md5", ".", "txt">>.  Where the code looks at single *)
(* characters (the serialization regexes) tokens are expanded by Chars.    *)
(***************************************************************************)
EXTENDS Integers, Sequences, FiniteSets, TLC

VARIABLES
    pathToBag,      \* Validator.pathToBag (tokens)
    fsys,           \* the file system at pathToBag: exists, isDirectory, entries
    profile,        \* Validator.profile (NullProfile for null)
    disableSerializationCheck,
    slowMotionDelay,\* Context.slowMotionDelay (ms)
    pc,             \* where the run is: idle, scanning, reading, polling, done, crashed
    reader,         \* the reader in use: kind, pass, next entry, failed
    readersCreated, \* number of calls of getNewReader
    bagRoot,
    files,          \* Validator.files: relPath -> BagItFile
    manifestAlgorithmsFoundInBag,
    tagManifestAlgorithmsFoundInBag,
    errors,         \* Validator.errors
    hashesInProgress,
    initialFileCount,
    filesChecked,
    timers,         \* pending setTimeout callbacks of _readEntry (relPaths, in order)
    streams,        \* files whose read stream is piped and has not ended: relPaths
    hashers,        \* hashers created and not finished: set of <<relPath, algorithm>>
    events,         \* everything emitted so far
    obs             \* observations made at the moment verification starts

vars == <<pathToBag, fsys, profile, disableSerializationCheck, slowMotionDelay, pc,
          reader, readersCreated, bagRoot, files, manifestAlgorithmsFoundInBag,
          tagManifestAlgorithmsFoundInBag, errors, hashesInProgress,
          initialFileCount, filesChecked, timers, streams, hashers, events, obs>>

-----------------------------------------------------------------------------
(* Sequences and strings *)

Range(s) == {s[i] : i \in 1..Len(s)}

Last(s) == s[Len(s)]

Front(s) == SubSeq(s, 1, Len(s) - 1)

Contains(s, x) == \E i \in 1..Len(s) : s[i] = x

RECURSIVE Flatten(_)
Flatten(ss) == IF ss = <<>> THEN <<>> ELSE Head(ss) \o Flatten(Tail(ss))

RECURSIVE SelectIdx(_, _, _)
\* the elements s[i] for which keep[i] holds, in order
SelectIdx(s, keep, i) ==
    IF i > Len(s) THEN <<>>
    ELSE (IF keep[i] THEN <<s[i]>> ELSE <<>>) \o SelectIdx(s, keep, i + 1)

\* Array.prototype.filter / a set as the array of its first occurrences
Dedup(s) == SelectIdx(s, [i \in 1..Len(s) |-> \A j \in 1..(i - 1) : s[j] # s[i]], 1)

EndsWith(s, suffix) ==
    /\ Len(s) >= Len(suffix)
    /\ SubSeq(s, Len(s) - Len(suffix) + 1, Len(s)) = suffix

StartsWith(s, prefix) ==
    /\ Len(s) >= Len(prefix)
    /\ SubSeq(s, 1, Len(prefix)) = prefix

RECURSIVE SplitAcc(_, _, _)
SplitAcc(s, sep, cur) ==
    IF s = <<>> THEN <<cur>>
    ELSE IF Head(s) = sep THEN <<cur>> \o SplitAcc(Tail(s), sep, <<>>)
    ELSE SplitAcc(Tail(s), sep, Append(cur, Head(s)))

\* String.prototype.split(sep) for a one-character separator: the pieces
\* between the separators, empty pieces included
Split(s, sep) == SplitAcc(s, sep, <<>>)

SLASH == "/"
DASH == "-"
DOT == "."

DotTxt == <<DOT, "txt">>
DotTar == <<DOT, "tar">>

\* path.basename(p): what follows the last "/"
BaseName(p) == Last(Split(p, SLASH))

\* path.basename(p, ext): the extension is dropped when the name ends with it
\* and is longer than it
BaseNameExt(p, ext) ==
    LET b == BaseName(p)
    IN IF EndsWith(b, ext) /\ Len(b) > Len(ext)
       THEN SubSeq(b, 1, Len(b) - Len(ext)) ELSE b

\* path.extname(p): from the last "." of the base name, "" when there is none
\* or the name starts with it
ExtName(p) ==
    LET b == BaseName(p)
        dots == {i \in 2..Len(b) : b[i] = DOT}
    IN IF dots = {} THEN <<>>
       ELSE LET d == CHOOSE i \in dots : \A j \in dots : j <= i
            IN SubSeq(b, d, Len(b))

\* s.replace(/\/$/, '')
StripTrailingSlash(s) == IF s # <<>> /\ Last(s) = SLASH THEN Front(s) ELSE s

-----------------------------------------------------------------------------
(* Characters, for the code that matches single characters *)

\* the characters of the word tokens that occur in bag paths
CharTable ==
    ("tar" :> <<"t", "a", "r">>) @@ ("xtar" :> <<"x", "t", "a", "r">>) @@
    ("TAR" :> <<"T", "A", "R">>) @@ ("zip" :> <<"z", "i", "p">>) @@
    ("gz" :> <<"g", "z">>) @@ ("tgz" :> <<"t", "g", "z">>) @@
    ("gzip" :> <<"g", "z", "i", "p">>) @@ ("rar" :> <<"r", "a", "r">>) @@
    ("7z" :> <<"7", "z">>) @@ ("7Z" :> <<"7", "Z">>) @@
    ("x7z" :> <<"x", "7", "z">>)

Chars(tok) == IF tok \in DOMAIN CharTable THEN CharTable[tok] ELSE <<tok>>

\* a token sequence as the string of its characters
CharsOf(p) == Flatten([i \in 1..Len(p) |-> Chars(p[i])])

Lower(ch) ==
    CASE ch = "T" -> "t" [] ch = "A" -> "a" [] ch = "R" -> "r" [] ch = "Z" -> "z"
      [] OTHER -> ch

\* In a pattern, ANY is the regex "." (any character); every other item is
\* the character itself.
ANY == "<any>"

ItemMatches(item, ch, ignoreCase) ==
    \/ item = ANY
    \/ item = ch
    \/ ignoreCase /\ Lower(item) = Lower(ch)

\* str.match(re) for a regex that is a set of alternatives, each a run of
\* items anchored at the end of the string ($) and free at its start
RegexMatchAtEnd(str, re) ==
    \E alt \in re.alts :
        /\ Len(str) >= Len(alt)
        /\ \A i \in 1..Len(alt) :
              ItemMatches(alt[i], str[Len(str) - Len(alt) + i], re.ignoreCase)

\* Constants.SERIALIZATION_FORMATS.  The patterns are written as string
\* literals, "\.tar$": in a JavaScript string literal "\." is ".", so the
\* regex the program builds is /.tar$/, whose first item is ANY.
SERIALIZATION_FORMATS ==
    [ m \in {"application/x-7z-compressed", "application/tar", "application/zip",
             "application/gzip", "application/x-rar", "application/tar+gzip"} |->
      CASE m = "application/x-7z-compressed" ->
               [alts |-> {<<ANY, "7", "z">>}, ignoreCase |-> TRUE]
        [] m = "application/tar" ->
               [alts |-> {<<ANY, "t", "a", "r">>}, ignoreCase |-> FALSE]
        [] m = "application/zip" ->
               [alts |-> {<<ANY, "z", "i", "p">>}, ignoreCase |-> FALSE]
        [] m = "application/gzip" ->
               [alts |-> {<<ANY, "g", "z", "i", "p">>, <<ANY, "g", "z">>},
                ignoreCase |-> FALSE]
        [] m = "application/x-rar" ->
               [alts |-> {<<ANY, "r", "a", "r">>}, ignoreCase |-> FALSE]
        [] m = "application/tar+gzip" ->
               [alts |-> {<<ANY, "t", "g", "z">>,
                          <<ANY, "t", "a", "r", ANY, "g", "z">>},
                ignoreCase |-> FALSE] ]

\* Constants.REQUIREMENT_OPTIONS
REQUIREMENT_OPTIONS == <<"required", "optional", "forbidden">>

\* Constants.PAYLOAD_FILE, PAYLOAD_MANIFEST, TAG_MANIFEST, TAG_FILE
PAYLOAD_FILE == "payload"
PAYLOAD_MANIFEST == "manifest"
TAG_MANIFEST == "tagmanifest"
TAG_FILE == "tagfile"

\* Constants.RE_MANIFEST, /^manifest-(\w+)\.txt$/, on a token sequence: the
\* two backslashes of the source make "\w" and "\." real regex escapes
MatchesREManifest(relPath) ==
    /\ Len(relPath) = 5
    /\ relPath[1] = PAYLOAD_MANIFEST /\ relPath[2] = DASH
    /\ relPath[3] \notin {SLASH, DASH, DOT}
    /\ relPath[4] = DOT /\ relPath[5] = "txt"

\* Constants.RE_TAG_MANIFEST, /^tagmanifest-(\w+)\.txt$/
MatchesRETagManifest(relPath) ==
    /\ Len(relPath) = 5
    /\ relPath[1] = TAG_MANIFEST /\ relPath[2] = DASH
    /\ relPath[3] \notin {SLASH, DASH, DOT}
    /\ relPath[4] = DOT /\ relPath[5] = "txt"

-----------------------------------------------------------------------------
(* KeyValueCollection: an insertion-ordered multimap, kept as the sequence  *)
(* of the <<key, value>> pairs added.                                       *)

Null == <<"<null>">>

KVAdd(kv, key, value) == Append(kv, <<key, value>>)

\* keys(): the distinct keys, in the order of their first insertion
KVKeys(kv) == Dedup([i \in 1..Len(kv) |-> kv[i][1]])

\* all(key): the values added under key, in order; null when there is none
KVAll(kv, key) ==
    LET vs == SelectIdx([i \in 1..Len(kv) |-> kv[i][2]],
                        [i \in 1..Len(kv) |-> kv[i][1] = key], 1)
    IN IF vs = <<>> THEN Null ELSE vs

\* first(key): the first value added under key; null when there is none
KVFirst(kv, key) == IF KVAll(kv, key) = Null THEN Null ELSE KVAll(kv, key)[1]

\* JavaScript truthiness of a string-or-null: null and "" are falsy
Truthy(v) == v # Null /\ v # <<>>

-----------------------------------------------------------------------------
(* BagItFile *)

\* BagItFile.getFileType(relPath)
GetFileType(relPath) ==
    IF MatchesREManifest(relPath) THEN PAYLOAD_MANIFEST
    ELSE IF MatchesRETagManifest(relPath) THEN TAG_MANIFEST
    ELSE IF StartsWith(relPath, <<"data", SLASH>>) THEN PAYLOAD_FILE
    ELSE TAG_FILE

\* new BagItFile(absPath, relPath, fileStat): no checksums, nothing parsed.
\* checksums is a function whose domain is the set of algorithms that have
\* a value; reading another algorithm gives undefined.
NewBagItFile(relPath, size) ==
    [relDestPath |-> relPath, size |-> size, fileType |-> GetFileType(relPath),
     checksums |-> <<>>, keyValueCollection |-> Null]

IsPayloadFile(f) == f.fileType = PAYLOAD_FILE
IsPayloadManifest(f) == f.fileType = PAYLOAD_MANIFEST
IsTagManifest(f) == f.fileType = TAG_MANIFEST
IsTagFile(f) == f.fileType = TAG_FILE

Undefined == <<"<undefined>">>

\* bagItFile.checksums[algorithm]
Checksum(f, alg) == IF alg \in DOMAIN f.checksums THEN f.checksums[alg] ELSE Undefined

\* the hex digest a hasher of this algorithm computes from these bytes
HexDigest(alg, bytes) == <<alg, "(">> \o bytes \o <<")">>

-----------------------------------------------------------------------------
(* BagItProfile *)

NullProfile == [isNull |-> TRUE]

BagItTxt == <<"bagit", DOT, "txt">>
BagInfoTxt == <<"bag", DASH, "info", DOT, "txt">>

\* the tag files among bagit.txt and bag-info.txt for which the profile has
\* no tag definition: errors['tags'] has a line for each
LacksTagFiles(p) ==
    (IF \E i \in 1..Len(p.tags) : p.tags[i].tagFile = BagItTxt THEN <<>>
     ELSE <<BagItTxt>>)
    \o (IF \E i \in 1..Len(p.tags) : p.tags[i].tagFile = BagInfoTxt THEN <<>>
        ELSE <<BagInfoTxt>>)

\* a validate() that stops at the first property it finds wrong
ProfileErrorsFirstOnly(p) ==
    IF p.id = "" THEN <<[kind |-> "Profile", field |-> "id"]>>
    ELSE IF p.name = "" THEN <<[kind |-> "Profile", field |-> "name"]>>
    ELSE IF p.acceptBagItVersion = <<>>
    THEN <<[kind |-> "Profile", field |-> "acceptBagItVersion"]>>
    ELSE IF p.manifestsAllowed = <<>>
    THEN <<[kind |-> "Profile", field |-> "manifestsAllowed"]>>
    ELSE IF LacksTagFiles(p) # <<>>
    THEN <<[kind |-> "Profile", field |-> "tags", lacks |-> LacksTagFiles(p)]>>
    ELSE IF ~Contains(REQUIREMENT_OPTIONS, p.serialization)
    THEN <<[kind |-> "Profile", field |-> "serialization"]>>
    ELSE <<>>

\* BagItProfile.validate(): the errors it records, in the order it checks
ProfileErrors(p) ==
    (IF p.id = "" THEN <<[kind |-> "Profile", field |-> "id"]>> ELSE <<>>)
    \o (IF p.name = "" THEN <<[kind |-> "Profile", field |-> "name"]>> ELSE <<>>)
    \o (IF p.acceptBagItVersion = <<>>
        THEN <<[kind |-> "Profile", field |-> "acceptBagItVersion"]>> ELSE <<>>)
    \o (IF p.manifestsAllowed = <<>>
        THEN <<[kind |-> "Profile", field |-> "manifestsAllowed"]>> ELSE <<>>)
    \o (IF LacksTagFiles(p) # <<>>
        THEN <<[kind |-> "Profile", field |-> "tags", lacks |-> LacksTagFiles(p)]>>
        ELSE <<>>)
    \o (IF ~Contains(REQUIREMENT_OPTIONS, p.serialization)
        THEN <<[kind |-> "Profile", field |-> "serialization"]>> ELSE <<>>)

ProfileValidate(p) == ProfileErrors(p) = <<>>

\* the strength order of the manifest chooser
AlgorithmPreference == <<"sha512", "sha256", "sha384", "sha224", "sha1", "md5">>

\* chooseManifestAlgorithms without its first rule: the algorithms required
\* of the payload manifests, whatever the tag manifests require
ChooseManifestAlgorithmsRequiredFirst(p, whichType) ==
    LET allowedIdx == {i \in 1..Len(AlgorithmPreference) :
                          Contains(p.manifestsAllowed, AlgorithmPreference[i])}
    IN IF p.manifestsRequired # <<>> THEN p.manifestsRequired
       ELSE IF p.tagManifestsRequired # <<>> THEN p.tagManifestsRequired
       ELSE IF allowedIdx # {}
            THEN <<AlgorithmPreference[CHOOSE i \in allowedIdx :
                                          \A j \in allowedIdx : i <= j]>>
       ELSE <<"sha512">>

\* BagItProfile.chooseManifestAlgorithms(whichType)
ChooseManifestAlgorithms(p, whichType) ==
    LET both == SelectIdx(p.manifestsRequired,
                          [i \in 1..Len(p.manifestsRequired) |->
                              Contains(p.tagManifestsRequired, p.manifestsRequired[i])], 1)
        allowedIdx == {i \in 1..Len(AlgorithmPreference) :
                          Contains(p.manifestsAllowed, AlgorithmPreference[i])}
    IN IF both # <<>> THEN both
       ELSE IF p.manifestsRequired # <<>> THEN p.manifestsRequired
       ELSE IF p.tagManifestsRequired # <<>> THEN p.tagManifestsRequired
       ELSE IF allowedIdx # {}
            THEN <<AlgorithmPreference[CHOOSE i \in allowedIdx :
                                          \A j \in allowedIdx : i <= j]>>
       ELSE <<"sha512">>

\* BagItProfile.tagsGroupedByFile(): the tag files that have definitions, in
\* the order of their first definition
TagFilesWithDefinitions(p) == Dedup([i \in 1..Len(p.tags) |-> p.tags[i].tagFile])

TagDefinitionsOf(p, tagFile) ==
    SelectIdx(p.tags, [i \in 1..Len(p.tags) |-> p.tags[i].tagFile = tagFile], 1)

-----------------------------------------------------------------------------
(* Validator.files: the BagItFiles in the order their keys were inserted *)

HasFile(fs, relPath) == \E i \in 1..Len(fs) : fs[i].relDestPath = relPath

FileAt(fs, relPath) == fs[CHOOSE i \in 1..Len(fs) : fs[i].relDestPath = relPath]

\* this.files[relPath] = bagItFile
FilesPut(fs, f) ==
    IF HasFile(fs, f.relDestPath)
    THEN [i \in 1..Len(fs) |-> IF fs[i].relDestPath = f.relDestPath THEN f ELSE fs[i]]
    ELSE Append(fs, f)

FilesWhere(fs, Test(_)) == SelectIdx(fs, [i \in 1..Len(fs) |-> Test(fs[i])], 1)

\* Validator.payloadFiles, payloadManifests, tagFiles, tagManifests
PayloadFiles(fs) == FilesWhere(fs, IsPayloadFile)
PayloadManifests(fs) == FilesWhere(fs, IsPayloadManifest)
TagFiles(fs) == FilesWhere(fs, IsTagFile)
TagManifests(fs) == FilesWhere(fs, IsTagManifest)

-----------------------------------------------------------------------------
(* The verification checks.  Each gives the messages the method pushes to   *)
(* Validator.errors, in the order it pushes them.                           *)

FlatMap(s, F(_)) == Flatten([i \in 1..Len(s) |-> F(s[i])])

\* Validator.readingFromTar
ReadingFromTar(path) == EndsWith(path, DotTar)

\* Validator._validateUntarDirectory
ValidateUntarDirectory(path, p, root) ==
    LET tarFileName == BaseNameExt(path, DotTar)
    IN IF ReadingFromTar(path) /\ p.tarDirMustMatchName /\ root # tarFileName
       THEN <<[kind |-> "UntarDirectory", expected |-> tarFileName, found |-> root]>>
       ELSE <<>>

\* `${manifestType}-${alg}.txt`
ManifestName(manifestType, alg) == <<manifestType, DASH, alg, DOT, "txt">>

\* _validateRequiredManifests that takes manifestsRequired for the tag
\* manifests too
ValidateRequiredManifestsOneList(fs, p, manifestType) ==
    LET Check(alg) == IF ~HasFile(fs, ManifestName(manifestType, alg))
                      THEN <<[kind |-> "MissingManifest", type |-> manifestType,
                              file |-> ManifestName(manifestType, alg)]>>
                      ELSE <<>>
    IN FlatMap(p.manifestsRequired, Check)

\* Validator._validateRequiredManifests
ValidateRequiredManifests(fs, p, manifestType) ==
    LET manifestList == IF manifestType = TAG_MANIFEST
                        THEN p.tagManifestsRequired ELSE p.manifestsRequired
        Check(alg) == IF ~HasFile(fs, ManifestName(manifestType, alg))
                      THEN <<[kind |-> "MissingManifest", type |-> manifestType,
                              file |-> ManifestName(manifestType, alg)]>>
                      ELSE <<>>
    IN FlatMap(manifestList, Check)

\* Validator._validateAllowedManifests
ValidateAllowedManifests(p, foundPayload, foundTag, manifestType) ==
    LET allowed == IF manifestType = TAG_MANIFEST
                   THEN p.tagManifestsAllowed ELSE p.manifestsAllowed
        foundInBag == IF manifestType = TAG_MANIFEST THEN foundTag ELSE foundPayload
        Check(alg) == IF ~Contains(allowed, alg)
                      THEN <<[kind |-> "ManifestNotAllowed", type |-> manifestType,
                              alg |-> alg]>>
                      ELSE <<>>
    IN FlatMap(foundInBag, Check)

STAR == "*"

RECURSIVE GlobMatch(_, _)
\* minimatch(path, pattern): a "*" stands for any run of tokens without "/"
GlobMatch(path, pat) ==
    IF pat = <<>> THEN path = <<>>
    ELSE IF Head(pat) = STAR
    THEN \E k \in 0..Len(path) :
            /\ \A i \in 1..k : path[i] # SLASH
            /\ GlobMatch(SubSeq(path, k + 1, Len(path)), Tail(pat))
    ELSE path # <<>> /\ Head(path) = Head(pat) /\ GlobMatch(Tail(path), Tail(pat))

\* Validator._validateAllowedTagFiles
ValidateAllowedTagFiles(fs, p) ==
    LET allowed == p.tagFilesAllowed
        tested == {i \in 1..Len(allowed) : allowed[i] # <<>> /\ allowed[i] # <<STAR>>}
        Check(file) ==
            IF /\ file.relDestPath # BagItTxt
               /\ tested # {}
               /\ ~\E i \in tested : GlobMatch(file.relDestPath, allowed[i])
            THEN <<[kind |-> "TagFileNotAllowed", file |-> file.relDestPath]>>
            ELSE <<>>
    IN FlatMap(TagFiles(fs), Check)

\* path.basename(manifest.relDestPath, '.txt').split('-')[1]
AlgorithmOfManifest(relDestPath) == Split(BaseNameExt(relDestPath, DotTxt), DASH)[2][1]

ManifestsOfType(fs, manifestType) ==
    IF manifestType = TAG_MANIFEST THEN TagManifests(fs) ELSE PayloadManifests(fs)

\* Validator._validateManifestEntries, for one manifest
ManifestEntryErrors(fs, manifest) ==
    LET algorithm == AlgorithmOfManifest(manifest.relDestPath)
        Check(filename) ==
            IF ~HasFile(fs, filename)
            THEN <<[kind |-> "MissingFromBag", file |-> filename,
                    manifest |-> manifest.relDestPath]>>
            ELSE LET checksumInManifest == KVFirst(manifest.keyValueCollection, filename)
                     calculatedChecksum == Checksum(FileAt(fs, filename), algorithm)
                 IN IF checksumInManifest # calculatedChecksum
                    THEN <<[kind |-> "BadDigest", alg |-> algorithm, file |-> filename,
                            manifest |-> manifest.relDestPath,
                            inManifest |-> checksumInManifest,
                            calculated |-> calculatedChecksum]>>
                    ELSE <<>>
    IN FlatMap(KVKeys(manifest.keyValueCollection), Check)

\* the manifests a loop over them reaches before one without a parsed
\* collection makes it throw (TypeError: null has no keys / first)
BeforeUnparsed(manifests) ==
    LET bad == {i \in 1..Len(manifests) : manifests[i].keyValueCollection = Null}
    IN IF bad = {} THEN manifests
       ELSE SubSeq(manifests, 1, (CHOOSE i \in bad : \A j \in bad : i <= j) - 1)

HasUnparsed(manifests) ==
    \E i \in 1..Len(manifests) : manifests[i].keyValueCollection = Null

\* Validator._validateManifestEntries
ValidateManifestEntries(fs, manifestType) ==
    LET Check(manifest) == ManifestEntryErrors(fs, manifest)
    IN FlatMap(BeforeUnparsed(ManifestsOfType(fs, manifestType)), Check)

\* _validateNoExtraneousPayloadFiles that looks in the first payload
\* manifest only
ValidateNoExtraneousFirstManifest(fs) ==
    LET PerManifest(manifest) ==
            LET Check(f) ==
                    IF ~Truthy(KVFirst(manifest.keyValueCollection, f.relDestPath))
                    THEN <<[kind |-> "PayloadNotInManifest", file |-> f.relDestPath,
                            manifest |-> manifest.relDestPath]>>
                    ELSE <<>>
            IN FlatMap(PayloadFiles(fs), Check)
        manifests == BeforeUnparsed(PayloadManifests(fs))
    IN FlatMap(IF manifests = <<>> THEN <<>> ELSE <<manifests[1]>>, PerManifest)

\* Validator._validateNoExtraneousPayloadFiles
ValidateNoExtraneousPayloadFiles(fs) ==
    LET PerManifest(manifest) ==
            LET Check(f) ==
                    IF ~Truthy(KVFirst(manifest.keyValueCollection, f.relDestPath))
                    THEN <<[kind |-> "PayloadNotInManifest", file |-> f.relDestPath,
                            manifest |-> manifest.relDestPath]>>
                    ELSE <<>>
            IN FlatMap(PayloadFiles(fs), Check)
    IN FlatMap(BeforeUnparsed(PayloadManifests(fs)), PerManifest)

Numerals == <<"0", "1", "2", "3", "4", "5", "6", "7", "8", "9">>

IsNumeral(tok) == \E n \in 1..Len(Numerals) : Numerals[n] = tok

NumeralValue(tok) == (CHOOSE n \in 1..Len(Numerals) : Numerals[n] = tok) - 1

RECURSIVE LeadingInt(_, _)
\* the number the leading digits of the characters stand for, after acc
LeadingInt(chars, acc) ==
    IF chars = <<>> \/ ~IsNumeral(Head(chars)) THEN acc
    ELSE LeadingInt(Tail(chars), 10 * acc + NumeralValue(Head(chars)))

\* parseInt(piece, 10) of a piece of a split string (undefined when the
\* string has no such piece): the digits the piece starts with; -1 stands
\* for NaN, which equals no count.  A number is written one digit a token.
ParseInt(pieces, k) ==
    IF k <= Len(pieces) /\ pieces[k] # <<>> /\ IsNumeral(pieces[k][1])
    THEN LeadingInt(pieces[k], 0)
    ELSE -1

RECURSIVE SumSizes(_)
SumSizes(fs) == IF fs = <<>> THEN 0 ELSE Head(fs).size + SumSizes(Tail(fs))

\* _validatePayloadOxum that stops at the first number that differs
ValidatePayloadOxumFirstOnly(fs) ==
    IF HasFile(fs, BagInfoTxt) /\ FileAt(fs, BagInfoTxt).keyValueCollection # Null
    THEN LET oxum == KVFirst(FileAt(fs, BagInfoTxt).keyValueCollection, "Payload-Oxum")
             parts == Split(oxum, DOT)
             oxumBytes == ParseInt(parts, 1)
             oxumFiles == ParseInt(parts, 2)
             fileCount == Len(PayloadFiles(fs))
             byteCount == SumSizes(PayloadFiles(fs))
         IN IF ~Truthy(oxum) THEN <<>>
            ELSE IF oxumFiles # fileCount
            THEN <<[kind |-> "OxumFiles", expected |-> oxumFiles, found |-> fileCount]>>
            ELSE IF oxumBytes # byteCount
            THEN <<[kind |-> "OxumBytes", expected |-> oxumBytes, found |-> byteCount]>>
            ELSE <<>>
    ELSE <<>>

\* Validator._validatePayloadOxum
ValidatePayloadOxum(fs) ==
    IF HasFile(fs, BagInfoTxt) /\ FileAt(fs, BagInfoTxt).keyValueCollection # Null
    THEN LET oxum == KVFirst(FileAt(fs, BagInfoTxt).keyValueCollection, "Payload-Oxum")
             parts == Split(oxum, DOT)
             oxumBytes == ParseInt(parts, 1)
             oxumFiles == ParseInt(parts, 2)
             fileCount == Len(PayloadFiles(fs))
             byteCount == SumSizes(PayloadFiles(fs))
         IN IF Truthy(oxum)
            THEN (IF oxumFiles # fileCount
                  THEN <<[kind |-> "OxumFiles", expected |-> oxumFiles,
                          found |-> fileCount]>> ELSE <<>>)
                 \o (IF oxumBytes # byteCount
                     THEN <<[kind |-> "OxumBytes", expected |-> oxumBytes,
                             found |-> byteCount]>> ELSE <<>>)
            ELSE <<>>
    ELSE <<>>

\* Util.listContains(list, item), for a list of strings and a string
ListContains(list, item) == Contains(list, item)

\* _validateTagsInFile that holds only the required tags to their values
ValidateTagsInFileRequiredOnly(p, filename, tagFile) ==
    LET PerTag(tagDef) ==
            LET parsedTagValues == KVAll(tagFile.keyValueCollection, tagDef.tagName)
                PerValue(value) ==
                    IF tagDef.required /\ value = <<>>
                    THEN <<[kind |-> "TagValueMissing", tag |-> tagDef.tagName,
                            file |-> filename]>>
                    ELSE IF tagDef.required /\ tagDef.values # <<>>
                            /\ ~ListContains(tagDef.values, value)
                    THEN <<[kind |-> "TagIllegalValue", tag |-> tagDef.tagName,
                            file |-> filename, value |-> value,
                            allowed |-> tagDef.values]>>
                    ELSE <<>>
            IN IF parsedTagValues = Null
               THEN (IF tagDef.required
                     THEN <<[kind |-> "TagMissing", tag |-> tagDef.tagName,
                             file |-> filename]>>
                     ELSE <<>>)
               ELSE FlatMap(parsedTagValues, PerValue)
    IN FlatMap(TagDefinitionsOf(p, filename), PerTag)

\* Validator._validateTagsInFile
ValidateTagsInFile(p, filename, tagFile) ==
    LET PerTag(tagDef) ==
            LET parsedTagValues == KVAll(tagFile.keyValueCollection, tagDef.tagName)
                PerValue(value) ==
                    IF tagDef.required /\ value = <<>>
                    THEN <<[kind |-> "TagValueMissing", tag |-> tagDef.tagName,
                            file |-> filename]>>
                    ELSE IF tagDef.values # <<>> /\ ~ListContains(tagDef.values, value)
                    THEN <<[kind |-> "TagIllegalValue", tag |-> tagDef.tagName,
                            file |-> filename, value |-> value,
                            allowed |-> tagDef.values]>>
                    ELSE <<>>
            IN IF parsedTagValues = Null
               THEN (IF tagDef.required
                     THEN <<[kind |-> "TagMissing", tag |-> tagDef.tagName,
                             file |-> filename]>>
                     ELSE <<>>)
               ELSE FlatMap(parsedTagValues, PerValue)
    IN FlatMap(TagDefinitionsOf(p, filename), PerTag)

\* Validator._validateTags
ValidateTags(fs, p) ==
    LET PerFile(filename) ==
            IF ~HasFile(fs, filename)
            THEN <<[kind |-> "TagFileMissing", file |-> filename]>>
            ELSE IF FileAt(fs, filename).keyValueCollection = Null
            THEN <<[kind |-> "TagFileNoData", file |-> filename]>>
            ELSE ValidateTagsInFile(p, filename, FileAt(fs, filename))
    IN FlatMap(TagFilesWithDefinitions(p), PerFile)

\* Validator._validateFormatAndContents, up to the emit: what it pushes to
\* errors and whether a check threw (then nothing after it runs, the 'end'
\* included)
ValidateFormatAndContents(path, p, root, fs, foundPayload, foundTag) ==
    LET untar == ValidateUntarDirectory(path, p, root)
        before == ValidateRequiredManifests(fs, p, PAYLOAD_MANIFEST)
                  \o ValidateRequiredManifests(fs, p, TAG_MANIFEST)
                  \o ValidateAllowedManifests(p, foundPayload, foundTag, PAYLOAD_MANIFEST)
                  \o ValidateAllowedManifests(p, foundPayload, foundTag, TAG_MANIFEST)
                  \o ValidateAllowedTagFiles(fs, p)
        payloadEntries == ValidateManifestEntries(fs, PAYLOAD_MANIFEST)
        tagEntries == ValidateManifestEntries(fs, TAG_MANIFEST)
        after == ValidateNoExtraneousPayloadFiles(fs)
                 \o ValidatePayloadOxum(fs)
                 \o ValidateTags(fs, p)
    IN IF untar # <<>> THEN [errors |-> untar, threw |-> FALSE]
       ELSE IF HasUnparsed(PayloadManifests(fs))
       THEN [errors |-> before \o payloadEntries, threw |-> TRUE]
       ELSE IF HasUnparsed(TagManifests(fs))
       THEN [errors |-> before \o payloadEntries \o tagEntries, threw |-> TRUE]
       ELSE [errors |-> before \o payloadEntries \o tagEntries \o after,
             threw |-> FALSE]

-----------------------------------------------------------------------------
(* The serialization check *)

\* Validator._validateSerializationFormat
ValidateSerializationFormat(path, p) ==
    \E i \in 1..Len(p.acceptSerialization) :
        /\ p.acceptSerialization[i] \in DOMAIN SERIALIZATION_FORMATS
        /\ RegexMatchAtEnd(CharsOf(path), SERIALIZATION_FORMATS[p.acceptSerialization[i]])

\* _validateSerialization that takes 'optional' to mean that nothing is
\* looked at
ValidateSerializationOptionalSkips(disabled, path, bagIsDirectory, p) ==
    IF p.serialization = "optional" THEN [valid |-> TRUE, errors |-> <<>>]
    ELSE IF disabled THEN [valid |-> TRUE, errors |-> <<>>]
    ELSE IF p.serialization = "required" /\ bagIsDirectory
    THEN [valid |-> FALSE, errors |-> <<[kind |-> "MustBeSerialized"]>>]
    ELSE IF p.serialization = "forbidden" /\ ~bagIsDirectory
    THEN [valid |-> FALSE, errors |-> <<[kind |-> "MustNotBeSerialized"]>>]
    ELSE IF ~bagIsDirectory /\ ~ValidateSerializationFormat(path, p)
    THEN [valid |-> FALSE,
          errors |-> <<[kind |-> "BadSerializationFormat", ext |-> ExtName(path),
                        accepted |-> p.acceptSerialization]>>]
    ELSE [valid |-> TRUE, errors |-> <<>>]

\* Validator._validateSerialization: the value it returns and the messages
\* it pushes to errors
ValidateSerialization(disabled, path, bagIsDirectory, p) ==
    LET first ==
            IF p.serialization = "required" /\ bagIsDirectory
            THEN <<[kind |-> "MustBeSerialized"]>>
            ELSE IF p.serialization = "forbidden" /\ ~bagIsDirectory
            THEN <<[kind |-> "MustNotBeSerialized"]>>
            ELSE <<>>
        checkSerializationFormat == ~(p.serialization = "forbidden" /\ ~bagIsDirectory)
        second ==
            IF ~bagIsDirectory /\ checkSerializationFormat
               /\ ~ValidateSerializationFormat(path, p)
            THEN <<[kind |-> "BadSerializationFormat", ext |-> ExtName(path),
                    accepted |-> p.acceptSerialization]>>
            ELSE <<>>
    IN IF disabled THEN [valid |-> TRUE, errors |-> <<>>]
       ELSE [valid |-> first \o second = <<>>, errors |-> first \o second]

\* Validator._validateProfile: the value it returns and the messages it pushes
ValidateProfile(p) ==
    IF p = NullProfile
    THEN [valid |-> FALSE, errors |-> <<[kind |-> "ProfileMissing"]>>]
    ELSE IF ~ProfileValidate(p)
    THEN [valid |-> FALSE,
          errors |-> [i \in 1..Len(ProfileErrors(p)) |->
                         [kind |-> "BagItProfile", err |-> ProfileErrors(p)[i]]]]
    ELSE [valid |-> TRUE, errors |-> <<>>]

-----------------------------------------------------------------------------
(* Readers *)

\* Validator.readingFromDir
ReadingFromDir == fsys.exists /\ fsys.isDirectory

\* PluginManager.canRead(fileExtension): the reader plugin registered for
\* the extension, "none" when there is none
CanRead(fileExtension) ==
    IF fileExtension = <<"directory">> THEN "FileSystemReader"
    ELSE IF fileExtension = DotTar THEN "TarReader"
    ELSE "none"

\* Validator.getNewReader: the plugin it constructs; "none" when it throws
GetNewReader ==
    CanRead(IF ReadingFromDir THEN <<"directory">> ELSE ExtName(pathToBag))

NoReader == [kind |-> "none", pass |-> "none", next |-> 1, stopped |-> TRUE]

NewReader(kind, pass) == [kind |-> kind, pass |-> pass, next |-> 1, stopped |-> FALSE]

\* Validator._cleanEntryRelPath
CleanEntryRelPath(relPath) ==
    LET tarFileName == BaseNameExt(pathToBag, DotTar)
        cleanPath == IF ReadingFromTar(pathToBag)
                        /\ StartsWith(relPath, Append(tarFileName, SLASH))
                     THEN SubSeq(relPath, Len(tarFileName) + 2, Len(relPath))
                     ELSE relPath
    IN StripTrailingSlash(cleanPath)

\* The TarReader hands out one entry at a time and goes on when the
\* entry's stream has ended; the FileSystemReader does not wait for the
\* streams it hands out.
ReaderMayAdvance ==
    /\ ~reader.stopped
    /\ reader.kind = "TarReader" => timers = <<>> /\ streams = {}

-----------------------------------------------------------------------------
(* Events *)

EvValidateStart == [name |-> "validateStart"]
EvEnd == [name |-> "end"]
EvError(msg) == [name |-> "error", message |-> msg]
EvTask(op, relPath, done, total) ==
    [name |-> "task", op |-> op, relPath |-> relPath, done |-> done, total |-> total]

\* this.errors.join(' ')
Joined(errs) == [kind |-> "Joined", parts |-> errs]

-----------------------------------------------------------------------------
(* The run of Validator.validate() *)

PollInterval == 50

inputs == <<pathToBag, fsys, profile, disableSerializationCheck, slowMotionDelay>>

NoObs == [verifying |-> FALSE]

Emit(ev) == events' = Append(events, ev)

\* Validator._scanBag and Validator._readBag get a reader and start it; with
\* no plugin for the bag getNewReader throws
StartReader(pass) ==
    /\ readersCreated' = readersCreated + 1
    /\ IF GetNewReader = "none"
       THEN pc' = "crashed" /\ reader' = NoReader
       ELSE /\ pc' = (IF pass = "list" THEN "scanning" ELSE "reading")
            /\ reader' = NewReader(GetNewReader, pass)

\* The pre-checks of Validator.validate in the wrong order: the profile is
\* looked at before the path
PreChecksProfileFirst ==
    LET prof == ValidateProfile(profile)
        ser == ValidateSerialization(disableSerializationCheck, pathToBag,
                                     fsys.isDirectory, profile)
    IN IF ~prof.valid
       THEN [ok |-> FALSE, errors |-> prof.errors,
             message |-> Joined(errors \o prof.errors)]
       ELSE IF ~fsys.exists
       THEN [ok |-> FALSE, errors |-> <<[kind |-> "FileDoesNotExist"]>>,
             message |-> [kind |-> "FileDoesNotExist"]]
       ELSE IF ~ser.valid
       THEN [ok |-> FALSE, errors |-> ser.errors,
             message |-> Joined(errors \o ser.errors)]
       ELSE [ok |-> TRUE, errors |-> ser.errors, message |-> Null]

\* The pre-checks of Validator.validate: whether the run goes on, what is
\* pushed to errors, and the message of the 'error' event when it does not
PreChecks ==
    LET prof == ValidateProfile(profile)
        ser == ValidateSerialization(disableSerializationCheck, pathToBag,
                                     fsys.isDirectory, profile)
    IN IF ~fsys.exists
       THEN [ok |-> FALSE, errors |-> <<[kind |-> "FileDoesNotExist"]>>,
             message |-> [kind |-> "FileDoesNotExist"]]
       ELSE IF ~prof.valid
       THEN [ok |-> FALSE, errors |-> prof.errors,
             message |-> Joined(errors \o prof.errors)]
       ELSE IF ~ser.valid
       THEN [ok |-> FALSE, errors |-> ser.errors,
             message |-> Joined(errors \o ser.errors)]
       ELSE [ok |-> TRUE, errors |-> ser.errors, message |-> Null]

\* the body of Validator.validate: nothing of the validator is set back
\* before the pre-checks
ValidateCall ==
    /\ errors' = errors \o PreChecks.errors
    /\ IF ~PreChecks.ok
       THEN /\ events' = events \o <<EvValidateStart, EvError(PreChecks.message), EvEnd>>
            /\ pc' = "done"
            /\ UNCHANGED <<reader, readersCreated>>
       ELSE /\ events' = events \o <<EvValidateStart, EvTask("start", pathToBag, 0, 0)>>
            /\ StartReader("list")
    /\ UNCHANGED <<inputs, bagRoot, files, manifestAlgorithmsFoundInBag,
                   tagManifestAlgorithmsFoundInBag, hashesInProgress,
                   initialFileCount, filesChecked, timers, streams, hashers>>

\* Validator.validate, called on a validator that was just constructed
Validate ==
    /\ pc = "idle"
    /\ ValidateCall
    /\ UNCHANGED obs

\* relPath.split('-')[1].split('.')[0]
AlgorithmOfScanned(relPath) == Split(Split(relPath, DASH)[2], DOT)[1][1]

\* list.includes(algorithm) || list.push(algorithm)
PushNew(list, x) == IF Contains(list, x) THEN list ELSE Append(list, x)

\* the 'entry' listener of Validator._scanBag
ScanEntry ==
    /\ pc = "scanning" /\ ~reader.stopped
    /\ reader.next <= Len(fsys.entries)
    /\ LET entry == fsys.entries[reader.next]
           relPath == CleanEntryRelPath(entry.relPath)
       IN /\ initialFileCount' = initialFileCount + 1
          /\ bagRoot' = IF bagRoot = Null /\ ReadingFromTar(pathToBag)
                        THEN Split(entry.relPath, SLASH)[1] ELSE bagRoot
          /\ manifestAlgorithmsFoundInBag' =
                IF MatchesREManifest(relPath)
                THEN PushNew(manifestAlgorithmsFoundInBag, AlgorithmOfScanned(relPath))
                ELSE manifestAlgorithmsFoundInBag
          /\ tagManifestAlgorithmsFoundInBag' =
                IF ~MatchesREManifest(relPath) /\ MatchesRETagManifest(relPath)
                THEN PushNew(tagManifestAlgorithmsFoundInBag, AlgorithmOfScanned(relPath))
                ELSE tagManifestAlgorithmsFoundInBag
    /\ reader' = [reader EXCEPT !.next = @ + 1]
    /\ UNCHANGED <<inputs, pc, readersCreated, files, errors, hashesInProgress,
                   filesChecked, timers, streams, hashers, events, obs>>

\* the 'end' listener of Validator._scanBag, which calls Validator._readBag
ScanEnd ==
    /\ pc = "scanning" /\ ~reader.stopped
    /\ reader.next > Len(fsys.entries)
    /\ StartReader("read")
    /\ UNCHANGED <<inputs, bagRoot, files, manifestAlgorithmsFoundInBag,
                   tagManifestAlgorithmsFoundInBag, errors, hashesInProgress,
                   initialFileCount, filesChecked, timers, streams, hashers,
                   events, obs>>

ReaderErr == [kind |-> "ReaderError"]

MaxReaderErrors == 1

ReaderErrorsSoFar ==
    Cardinality({i \in 1..Len(events) : events[i] = EvError(ReaderErr)})

\* the 'error' listeners of Validator._scanBag and Validator._readBag; the
\* reader that met the error goes on with the next entry or gives up
ReaderError ==
    /\ pc \in {"scanning", "reading"} /\ ~reader.stopped
    /\ ReaderErrorsSoFar < MaxReaderErrors
    /\ Emit(EvError(ReaderErr))
    /\ \/ reader' = reader
       \/ reader' = [reader EXCEPT !.stopped = TRUE]
    /\ UNCHANGED <<inputs, pc, readersCreated, bagRoot, files,
                   manifestAlgorithmsFoundInBag, tagManifestAlgorithmsFoundInBag,
                   errors, hashesInProgress, initialFileCount, filesChecked,
                   timers, streams, hashers, obs>>

\* the entry of the bag that a file of Validator.files was made from
EntryOf(relPath) ==
    fsys.entries[CHOOSE i \in 1..Len(fsys.entries) :
                    /\ fsys.entries[i].type = "file"
                    /\ CleanEntryRelPath(fsys.entries[i].relPath) = relPath]

\* the algorithms Validator._getCryptoHashes makes hashers for
CryptoHashAlgorithms ==
    LET m == ChooseManifestAlgorithms(profile, "manifest")
        t == ChooseManifestAlgorithms(profile, "tagmanifest")
        f == manifestAlgorithmsFoundInBag
        all == m \o t \o f
    IN Dedup(SelectIdx(all, [i \in 1..Len(all) |-> all[i] # ""], 1))

\* whether Validator._readFile pipes the file into a parser
HasParser(f) ==
    \/ IsPayloadManifest(f) \/ IsTagManifest(f)
    \/ IsTagFile(f) /\ EndsWith(f.relDestPath, DotTxt)

\* Validator._readFile, with Validator._getCryptoHashes: fs is the files map
\* and evs the events at the call
ReadFile(fs, evs, relPath) ==
    LET f == FileAt(fs, relPath)
        withParser == IF HasParser(f) /\ f.keyValueCollection = Null
                      THEN [f EXCEPT !.keyValueCollection = <<>>] ELSE f
    IN /\ filesChecked' = filesChecked + 1
       /\ events' = Append(evs, EvTask("checksum", relPath, filesChecked + 1,
                                       initialFileCount))
       /\ hashers' = hashers \cup {<<relPath, CryptoHashAlgorithms[i]>> :
                                      i \in 1..Len(CryptoHashAlgorithms)}
       /\ hashesInProgress' = hashesInProgress + Len(CryptoHashAlgorithms)
       /\ files' = FilesPut(fs, withParser)
       /\ streams' = streams \cup {relPath}

\* an entry that is not a file, left without a reader of its stream
LeftUnread(open, relPath) ==
    open \cup {relPath}

\* entry.stream.pipe(new stream.PassThrough()) for an entry that is not a
\* file and so has no bytes: the stream ends at once, and the streams that
\* are open stay as they are
PipeToPassThrough(open, relPath) ==
    open

\* Validator._readEntry, with Validator._addBagItFile
ReadEntry ==
    /\ pc = "reading" /\ ReaderMayAdvance
    /\ reader.next <= Len(fsys.entries)
    /\ reader' = [reader EXCEPT !.next = @ + 1]
    /\ LET entry == fsys.entries[reader.next]
           relPath == CleanEntryRelPath(entry.relPath)
           added == FilesPut(files, NewBagItFile(relPath, entry.size))
           addEvents == Append(events, EvTask("add", entry.relPath, 0, 0))
       IN IF entry.type = "file"
          THEN /\ IF slowMotionDelay > 0
                  THEN /\ timers' = Append(timers, relPath)
                       /\ files' = added
                       /\ events' = addEvents
                       /\ UNCHANGED <<filesChecked, hashers, hashesInProgress, streams>>
                  ELSE /\ ReadFile(added, addEvents, relPath)
                       /\ UNCHANGED timers
               /\ UNCHANGED bagRoot
          ELSE /\ bagRoot' =
                     IF entry.type = "dir" /\ bagRoot = Null /\ relPath = <<>>
                     THEN StripTrailingSlash(entry.relPath)
                     ELSE IF entry.type = "dir" /\ bagRoot = Null
                             /\ relPath = StripTrailingSlash(entry.relPath)
                     THEN relPath
                     ELSE bagRoot
               /\ streams' = PipeToPassThrough(streams, relPath)
               /\ UNCHANGED <<files, events, filesChecked, hashers,
                              hashesInProgress, timers>>
    /\ UNCHANGED <<inputs, pc, readersCreated, manifestAlgorithmsFoundInBag,
                   tagManifestAlgorithmsFoundInBag, errors, initialFileCount, obs>>

\* the setTimeout callback of Validator._readEntry; timers of one delay
\* fire in the order they were set
DelayedReadFile ==
    /\ timers # <<>>
    /\ ReadFile(files, events, Head(timers))
    /\ timers' = Tail(timers)
    /\ UNCHANGED <<inputs, pc, reader, readersCreated, bagRoot,
                   manifestAlgorithmsFoundInBag, tagManifestAlgorithmsFoundInBag,
                   errors, initialFileCount, obs>>

RECURSIVE ParseLines(_, _)
\* the parser's collection after the lines of the file: each line adds its
\* value under its key
ParseLines(kv, lines) ==
    IF lines = <<>> THEN kv
    ELSE ParseLines(KVAdd(kv, Head(lines).key, Head(lines).value), Tail(lines))

\* the read stream of a file ends: its parser has seen every line, and its
\* hashers are told to finish
StreamEnd(relPath) ==
    /\ relPath \in streams
    /\ streams' = streams \ {relPath}
    /\ LET f == FileAt(files, relPath)
       IN files' = IF HasParser(f)
                   THEN FilesPut(files, [f EXCEPT !.keyValueCollection =
                                            ParseLines(@, EntryOf(relPath).lines)])
                   ELSE files
    /\ UNCHANGED <<inputs, pc, reader, readersCreated, bagRoot,
                   manifestAlgorithmsFoundInBag, tagManifestAlgorithmsFoundInBag,
                   errors, hashesInProgress, initialFileCount, filesChecked,
                   timers, hashers, events, obs>>

\* Validator._hashCompleted, called by a hasher that has written its digest
\* to BagItFile.checksums
HashCompleted(relPath, alg) ==
    /\ <<relPath, alg>> \in hashers /\ relPath \notin streams
    /\ hashers' = hashers \ {<<relPath, alg>>}
    /\ LET f == FileAt(files, relPath)
           digest == HexDigest(alg, EntryOf(relPath).bytes)
       IN files' = FilesPut(files, [f EXCEPT !.checksums =
                                       [a \in DOMAIN @ \cup {alg} |->
                                           IF a = alg THEN digest ELSE @[a]]])
    /\ hashesInProgress' = hashesInProgress - 1
    /\ UNCHANGED <<inputs, pc, reader, readersCreated, bagRoot,
                   manifestAlgorithmsFoundInBag, tagManifestAlgorithmsFoundInBag,
                   errors, initialFileCount, filesChecked, timers, streams,
                   events, obs>>

\* the 'end' listener of Validator._readBag: it starts the interval
ReadEnd ==
    /\ pc = "reading" /\ ReaderMayAdvance
    /\ reader.next > Len(fsys.entries)
    /\ Emit(EvTask("read", pathToBag, 0, 0))
    /\ pc' = "polling"
    /\ reader' = [reader EXCEPT !.stopped = TRUE]
    /\ UNCHANGED <<inputs, readersCreated, bagRoot, files,
                   manifestAlgorithmsFoundInBag, tagManifestAlgorithmsFoundInBag,
                   errors, hashesInProgress, initialFileCount, filesChecked,
                   timers, streams, hashers, obs>>

\* what is observed of the validator when the verification starts, next to
\* what was observed before
Observed(before, seen) ==
    [k \in DOMAIN before \cup DOMAIN seen |->
        IF k \in DOMAIN seen THEN seen[k] ELSE before[k]]

\* The interval callback that finds no hash in progress; a callback that
\* finds one changes nothing.  The interval was set after every timeout of
\* _readEntry, so a timeout of at most its length fires before it.
HashIntervalTick ==
    /\ pc = "polling"
    /\ timers = <<>> \/ slowMotionDelay > PollInterval
    /\ hashesInProgress = 0
    /\ LET v == ValidateFormatAndContents(pathToBag, profile, bagRoot, files,
                                          manifestAlgorithmsFoundInBag,
                                          tagManifestAlgorithmsFoundInBag)
       IN /\ errors' = errors \o v.errors
          /\ IF v.threw
             THEN pc' = "crashed" /\ UNCHANGED events
             ELSE pc' = "done" /\ Emit(EvEnd)
    /\ obs' = Observed(obs, [verifying |-> TRUE, timers |-> timers,
                              streams |-> streams, hashers |-> hashers,
                              files |-> files])
    /\ UNCHANGED <<inputs, reader, readersCreated, bagRoot, files,
                   manifestAlgorithmsFoundInBag, tagManifestAlgorithmsFoundInBag,
                   hashesInProgress, initialFileCount, filesChecked, timers,
                   streams, hashers>>

-----------------------------------------------------------------------------
(* Bags and profiles the runs are checked on *)

FileEntry(relPath, size, bytes, lines) ==
    [relPath |-> relPath, type |-> "file", size |-> size, bytes |-> bytes,
     lines |-> lines]

DirEntry(relPath) ==
    [relPath |-> relPath, type |-> "dir", size |-> 0, bytes |-> <<>>, lines |-> <<>>]

\* an entry that is neither a file nor a directory
SymlinkEntry(relPath) ==
    [relPath |-> relPath, type |-> "symlink", size |-> 0, bytes |-> <<>>, lines |-> <<>>]

Line(key, value) == [key |-> key, value |-> value]

\* the bytes of a manifest: "<digest> <path>\n" for each line
ManifestBytes(lines) ==
    Flatten([i \in 1..Len(lines) |-> lines[i].value \o <<" ">> \o lines[i].key \o <<"\n">>])

\* the bytes of a tag file: "<name>: <value>\n" for each line
TagFileBytes(lines) ==
    Flatten([i \in 1..Len(lines) |-> <<lines[i].key, ": ">> \o lines[i].value \o <<"\n">>])

ManifestEntry(manifestType, alg, lines) ==
    FileEntry(ManifestName(manifestType, alg), Len(lines), ManifestBytes(lines), lines)

TagFileEntry(relPath, lines) == FileEntry(relPath, Len(lines), TagFileBytes(lines), lines)

PayloadNames == <<"a", "b", "c">>

PayloadPath(n) == <<"data", SLASH, PayloadNames[n]>>

PayloadEntry(n) == FileEntry(PayloadPath(n), n + 2, <<"bytes of", PayloadNames[n]>>, <<>>)

BadDigest == <<"bad">>

BagItTxtEntry ==
    TagFileEntry(BagItTxt, <<Line("BagIt-Version", <<"1", DOT, "0">>),
                             Line("Tag-File-Character-Encoding", <<"UTF", DASH, "8">>)>>)

BagInfoTxtEntry(lines) == TagFileEntry(BagInfoTxt, lines)

\* the entries as a reader reports them: a TarReader gives the paths in the
\* archive, which start with the directory the bag untars to
WithRoot(root, entries) ==
    IF root = <<>> THEN entries
    ELSE <<DirEntry(root \o <<SLASH>>)>>
         \o [i \in 1..Len(entries) |->
                [entries[i] EXCEPT !.relPath = root \o <<SLASH>> \o @]]

\* A bag with nPayload payload files, a payload manifest for each algorithm
\* of pAlgs and a tag manifest for each of tAlgs.  Every manifest lists
\* every payload file, every tag manifest lists the first payload manifest;
\* the digests are the right ones, except that with corrupt the first
\* payload manifest has a wrong digest for the first payload file.  A
\* reader reports the files of the top directory before or after data/.
RunBagEntries(nPayload, pAlgs, tAlgs, corrupt, tagFiles, topFirst) ==
    LET payload == [n \in 1..nPayload |-> PayloadEntry(n)]
        PLines(alg, k) ==
            [n \in 1..nPayload |->
                Line(PayloadPath(n),
                     IF corrupt /\ k = 1 /\ n = 1 THEN BadDigest
                     ELSE HexDigest(alg, PayloadEntry(n).bytes))]
        manifests == [k \in 1..Len(pAlgs) |->
                         ManifestEntry(PAYLOAD_MANIFEST, pAlgs[k], PLines(pAlgs[k], k))]
        TLines(alg) ==
            IF manifests = <<>> THEN <<>>
            ELSE <<Line(manifests[1].relPath, HexDigest(alg, manifests[1].bytes))>>
        tagManifests == [k \in 1..Len(tAlgs) |->
                            ManifestEntry(TAG_MANIFEST, tAlgs[k], TLines(tAlgs[k]))]
        tags == IF tagFiles
                THEN <<BagItTxtEntry,
                       BagInfoTxtEntry(<<Line("Source-Organization", <<"Acme">>)>>)>>
                ELSE <<>>
    IN IF topFirst
       THEN tags \o manifests \o tagManifests \o <<DirEntry(<<"data">>)>> \o payload
       ELSE tags \o <<DirEntry(<<"data">>)>> \o payload \o manifests \o tagManifests

DefaultTags ==
    <<[tagFile |-> BagItTxt, tagName |-> "BagIt-Version", required |-> TRUE,
       values |-> <<>>],
      [tagFile |-> BagItTxt, tagName |-> "Tag-File-Character-Encoding",
       required |-> TRUE, values |-> <<>>],
      [tagFile |-> BagInfoTxt, tagName |-> "Source-Organization", required |-> TRUE,
       values |-> <<>>]>>

BaseProfile ==
    [isNull |-> FALSE, id |-> "id", name |-> "profile",
     acceptBagItVersion |-> <<"1.0">>,
     acceptSerialization |-> <<"application/tar">>,
     serialization |-> "optional",
     manifestsRequired |-> <<"md5">>, manifestsAllowed |-> <<"md5", "sha256">>,
     tagManifestsRequired |-> <<>>, tagManifestsAllowed |-> <<"md5", "sha256">>,
     tagFilesAllowed |-> <<<<STAR>>>>, tarDirMustMatchName |-> TRUE,
     tags |-> DefaultTags]

DirPath == <<"b">>
TarPath == <<"b", DOT, "tar">>
ZipPath == <<"b", DOT, "zip">>

\* what is at a path: a directory holding the bag, or a file; a tar file
\* holds the bag under the directory root
FileSystem(path, exists, root, entries) ==
    [exists |-> exists, isDirectory |-> path = DirPath,
     entries |-> IF path = TarPath THEN WithRoot(root, entries)
                 ELSE IF path = DirPath THEN entries ELSE <<>>]

\* the state of a Validator after its constructor
Constructed ==
    /\ pc = "idle"
    /\ reader = NoReader
    /\ readersCreated = 0
    /\ bagRoot = Null
    /\ files = <<>>
    /\ manifestAlgorithmsFoundInBag = <<>>
    /\ tagManifestAlgorithmsFoundInBag = <<>>
    /\ errors = <<>>
    /\ hashesInProgress = 0
    /\ initialFileCount = 0
    /\ filesChecked = 0
    /\ timers = <<>>
    /\ streams = {}
    /\ hashers = {}
    /\ events = <<>>
    /\ obs = NoObs

RunMaxPayload == 1

\* the profiles of the pre-check cases: null, or a profile that differs from
\* the base profile in its name, its serialization rule and what it accepts,
\* or in the properties that validate() looks at
PreCheckProfiles ==
    {NullProfile} \cup
    {[BaseProfile EXCEPT !.name = n, !.serialization = s, !.acceptSerialization = a] :
        n \in {"", "profile"},
        s \in {"required", "optional", "forbidden", "bogus"},
        a \in {<<"application/tar">>, <<"application/zip">>}}
    \cup
    {[BaseProfile EXCEPT !.id = id, !.name = n, !.serialization = s,
                         !.acceptBagItVersion = v, !.manifestsAllowed = m,
                         !.tags = SelectIdx(DefaultTags,
                                            [i \in 1..Len(DefaultTags) |->
                                                DefaultTags[i].tagFile \in t], 1)] :
        id \in {"", "id"},
        n \in {"", "profile"},
        s \in {"optional", "bogus"},
        v \in {<<>>, <<"1.0">>},
        m \in {<<>>, <<"md5", "sha256">>},
        t \in SUBSET {BagItTxt, BagInfoTxt}}

\* Runs that differ in what the pre-checks see, on one small bag
InitPreChecks ==
    /\ pathToBag \in {DirPath, TarPath, ZipPath}
    /\ \E exists \in BOOLEAN :
          fsys = FileSystem(pathToBag, exists, <<"b">>,
                            RunBagEntries(1, <<"md5">>, <<>>, FALSE, FALSE, FALSE))
    /\ profile \in PreCheckProfiles
    /\ disableSerializationCheck \in BOOLEAN
    /\ slowMotionDelay = 0

\* the bags of the read cases: how many payload files, the algorithms of
\* the payload manifests and of the tag manifests, a wrong digest or not,
\* bagit.txt and bag-info.txt or not, the directory a tar file untars to
RunBagShape(n, pAlgs, tAlgs, corrupt, tagFiles, topFirst, root) ==
    [n |-> n, pAlgs |-> pAlgs, tAlgs |-> tAlgs, corrupt |-> corrupt,
     tagFiles |-> tagFiles, topFirst |-> topFirst, root |-> root]

RunBagShapes ==
    {RunBagShape(n, <<"md5">>, <<>>, c, FALSE, t, <<"b">>) :
        n \in 1..RunMaxPayload, c \in BOOLEAN, t \in BOOLEAN}
    \cup {RunBagShape(1, <<"md5">>, <<"sha256">>, FALSE, FALSE, FALSE, <<"b">>),
          RunBagShape(1, <<"md5">>, <<"md5">>, FALSE, FALSE, FALSE, <<"b">>),
          RunBagShape(1, <<"md5", "sha256">>, <<>>, FALSE, FALSE, FALSE, <<"b">>),
          RunBagShape(1, <<"md5">>, <<>>, FALSE, TRUE, FALSE, <<"b">>),
          RunBagShape(1, <<"md5">>, <<>>, FALSE, FALSE, FALSE, <<"c">>)}

\* the entries with a symbolic link in data/, which comes after the
\* directory
WithSymlink(link, entries) ==
    IF link
    THEN Flatten([i \in 1..Len(entries) |->
                     IF entries[i].type = "dir"
                     THEN <<entries[i], SymlinkEntry(<<"data", SLASH, "link">>)>>
                     ELSE <<entries[i]>>])
    ELSE entries

\* Runs that differ in the bag, the reader and the delay, with a profile
\* that passes the pre-checks
InitReads ==
    /\ pathToBag \in {DirPath, TarPath}
    /\ slowMotionDelay \in {0, 25, 100}
    /\ \E b \in RunBagShapes, link \in BOOLEAN :
          /\ b.root = <<"c">> => pathToBag = TarPath
          /\ link => b.tagFiles /\ slowMotionDelay \in {0, 25}
          /\ fsys = FileSystem(pathToBag, TRUE, b.root,
                               WithSymlink(link,
                                           RunBagEntries(b.n, b.pAlgs, b.tAlgs, b.corrupt,
                                                         b.tagFiles, b.topFirst)))
    /\ profile = BaseProfile
    /\ disableSerializationCheck = FALSE

Init == Constructed /\ (InitPreChecks \/ InitReads)

Next ==
    \/ Validate
    \/ ScanEntry
    \/ ScanEnd
    \/ ReaderError
    \/ ReadEntry
    \/ DelayedReadFile
    \/ \E relPath \in streams : StreamEnd(relPath)
    \/ \E h \in hashers : HashCompleted(h[1], h[2])
    \/ ReadEnd
    \/ HashIntervalTick

Spec == Init /\ [][Next]_vars

-----------------------------------------------------------------------------
(* Properties of the run *)

\* the regular files of the bag, by the paths they get in Validator.files
BagFilePaths ==
    {CleanEntryRelPath(fsys.entries[i].relPath) :
        i \in {j \in 1..Len(fsys.entries) : fsys.entries[j].type = "file"}}

C3_ReaderErrorRecorded ==
    (\E i \in 1..Len(events) : events[i] = EvError(ReaderErr))
        => Contains(errors, ReaderErr)

\* what a run that a pre-check ended looks like: the errors of that check
\* and nothing else, one 'error' event and then 'end', and no reader
EndedByPreCheck(errs, message) ==
    /\ pc = "done"
    /\ errors = errs
    /\ events = <<EvValidateStart, EvError(message), EvEnd>>
    /\ readersCreated = 0 /\ reader = NoReader
    /\ files = <<>> /\ initialFileCount = 0 /\ filesChecked = 0
    /\ hashers = {} /\ obs = NoObs

SerializationFails ==
    ~ValidateSerialization(disableSerializationCheck, pathToBag, fsys.isDirectory,
                           profile).valid

\* C4.  The pre-checks are terminal and run in the order existence, profile
\* self-check, serialization: a missing path ends the run with the one
\* error 'file does not exist'; else a null or invalid profile ends it with
\* the profile's errors; else a failed serialization check ends it with
\* that check's errors.  Each time one 'error' event and then 'end' are
\* emitted and no reader is created, so nothing of the bag is scanned, read
\* or verified.
C4_PreChecksTerminal ==
    pc # "idle" =>
        /\ ~fsys.exists =>
              EndedByPreCheck(<<[kind |-> "FileDoesNotExist"]>>,
                              [kind |-> "FileDoesNotExist"])
        /\ fsys.exists /\ profile = NullProfile =>
              EndedByPreCheck(<<[kind |-> "ProfileMissing"]>>,
                              Joined(<<[kind |-> "ProfileMissing"]>>))
        /\ fsys.exists /\ profile # NullProfile /\ ~ProfileValidate(profile) =>
              /\ EndedByPreCheck(errors, Joined(errors))
              /\ Len(errors) = Len(ProfileErrors(profile))
              /\ \A i \in 1..Len(errors) : errors[i].kind = "BagItProfile"
        /\ fsys.exists /\ profile # NullProfile /\ ProfileValidate(profile)
           /\ SerializationFails =>
              /\ EndedByPreCheck(errors, Joined(errors))
              /\ errors # <<>>
              /\ \A i \in 1..Len(errors) :
                    errors[i].kind \in {"MustBeSerialized", "MustNotBeSerialized",
                                        "BadSerializationFormat"}

\* a run that the serialization check ended
C4_Witness ==
    /\ pc = "done" /\ fsys.exists
    /\ profile # NullProfile /\ ProfileValidate(profile)
    /\ SerializationFails
    /\ Last(events) = EvEnd

\* whether an 'error' event delivered the message
Delivered(msg) ==
    \E i \in 1..Len(events) :
        /\ events[i].name = "error"
        /\ \/ events[i].message = msg
           \/ /\ events[i].message.kind = "Joined"
              /\ Contains(events[i].message.parts, msg)

\* C5.  When the run has ended, every message of Validator.errors was
\* delivered in an 'error' event (which came before 'end').
C5_EveryErrorEmitted ==
    pc = "done" => \A i \in 1..Len(errors) : Delivered(errors[i])

\* whether every line of every manifest and tag manifest of the bag names
\* a file of the bag and gives that file's digest
AllManifestsCorrect ==
    \A i \in 1..Len(fsys.entries) :
        LET relPath == CleanEntryRelPath(fsys.entries[i].relPath)
        IN fsys.entries[i].type = "file"
           /\ (MatchesREManifest(relPath) \/ MatchesRETagManifest(relPath))
           => \A k \in 1..Len(fsys.entries[i].lines) :
                 /\ fsys.entries[i].lines[k].key \in BagFilePaths
                 /\ fsys.entries[i].lines[k].value =
                       HexDigest(relPath[3],
                                 EntryOf(fsys.entries[i].lines[k].key).bytes)

\* C8.  The digest set covers every manifest found in the bag: after a run
\* without delay, every file has a checksum for the algorithm of every
\* payload manifest and of every tag manifest of the bag, and a bag whose
\* manifests and tag manifests are all correct has no digest error.
C8_DigestSetCoversBag ==
    pc = "done" /\ slowMotionDelay = 0 /\ obs.verifying =>
        /\ \A i \in 1..Len(files) :
              Range(manifestAlgorithmsFoundInBag)
                 \cup Range(tagManifestAlgorithmsFoundInBag)
              \subseteq DOMAIN files[i].checksums
        /\ AllManifestsCorrect =>
              \A i \in 1..Len(errors) : errors[i].kind # "BadDigest"

-----------------------------------------------------------------------------
(* The serialization check on its own: validate() has found the path and
   the profile is valid, and _validateSerialization is called *)

MaxPieces == 2
MaxAccept == 1

SerWords == {"tar", "TAR", "gz", "tgz", "zip", "7Z"}

\* what a file name is built of after its stem: an extension, or more
\* characters of the name
SerPieces == {<<DOT, w>> : w \in SerWords} \cup {<<w>> : w \in SerWords}

SerPaths ==
    {<<"b">> \o Flatten(ps) : ps \in UNION {[1..n -> SerPieces] : n \in 0..MaxPieces}}

MimeTypes == DOMAIN SERIALIZATION_FORMATS \cup {"application/octet-stream"}

AcceptLists == UNION {[1..n -> MimeTypes] : n \in 0..MaxAccept}

SerInputs ==
    /\ \/ /\ pathToBag \in SerPaths
          /\ fsys = [exists |-> TRUE, isDirectory |-> FALSE, entries |-> <<>>]
          /\ \E a \in AcceptLists, s \in {"required", "optional"} :
                profile = [BaseProfile EXCEPT !.acceptSerialization = a,
                                              !.serialization = s]
          /\ disableSerializationCheck = FALSE
       \/ /\ pathToBag \in {DirPath, TarPath, ZipPath, <<"b", "tar">>}
          /\ \E d \in BOOLEAN :
                fsys = [exists |-> TRUE, isDirectory |-> d, entries |-> <<>>]
          /\ \E a \in AcceptLists, s \in Range(REQUIREMENT_OPTIONS) :
                profile = [BaseProfile EXCEPT !.acceptSerialization = a,
                                              !.serialization = s]
          /\ disableSerializationCheck \in BOOLEAN
    /\ slowMotionDelay = 0

InitSer ==
    /\ SerInputs
    /\ pc = "serialization"
    /\ events = <<EvValidateStart>>
    /\ obs = NoObs
    /\ reader = NoReader /\ readersCreated = 0 /\ bagRoot = Null /\ files = <<>>
    /\ manifestAlgorithmsFoundInBag = <<>> /\ tagManifestAlgorithmsFoundInBag = <<>>
    /\ errors = <<>> /\ hashesInProgress = 0 /\ initialFileCount = 0
    /\ filesChecked = 0 /\ timers = <<>> /\ streams = {} /\ hashers = {}

\* the call of _validateSerialization in Validator.validate; obs keeps the
\* value it returned
SerializationCheck ==
    /\ pc = "serialization"
    /\ LET r == ValidateSerialization(disableSerializationCheck, pathToBag,
                                      fsys.isDirectory, profile)
       IN /\ errors' = errors \o r.errors
          /\ obs' = [verifying |-> FALSE, valid |-> r.valid]
    /\ pc' = "serializationChecked"
    /\ UNCHANGED <<inputs, reader, readersCreated, bagRoot, files,
                   manifestAlgorithmsFoundInBag, tagManifestAlgorithmsFoundInBag,
                   hashesInProgress, initialFileCount, filesChecked, timers,
                   streams, hashers, events>>

NextSer == SerializationCheck

SpecSer == InitSer /\ [][NextSer]_vars

\* the three cases of the decision table in which the check fails
SerCaseRequiredDirectory == profile.serialization = "required" /\ fsys.isDirectory
SerCaseForbiddenFile == profile.serialization = "forbidden" /\ ~fsys.isDirectory
SerCaseBadFormat ==
    /\ profile.serialization \in {"required", "optional"}
    /\ ~fsys.isDirectory
    /\ ~ValidateSerializationFormat(pathToBag, profile)

\* C6.  Serialization decision table: without disableSerializationCheck,
\* _validateSerialization returns false and appends an error exactly when
\* serialization is 'required' and the bag is a directory, or it is
\* 'forbidden' and the bag is a file, or it is 'required' or 'optional',
\* the bag is a file and format validation fails; in every other case, and
\* always with disableSerializationCheck, it returns true and appends
\* nothing.
C6_SerializationTable ==
    pc = "serializationChecked" =>
        IF ~disableSerializationCheck
           /\ (SerCaseRequiredDirectory \/ SerCaseForbiddenFile \/ SerCaseBadFormat)
        THEN /\ ~obs.valid
             /\ Len(errors) = 1
             /\ errors[1].kind =
                   IF SerCaseRequiredDirectory THEN "MustBeSerialized"
                   ELSE IF SerCaseForbiddenFile THEN "MustNotBeSerialized"
                   ELSE "BadSerializationFormat"
        ELSE obs.valid /\ errors = <<>>

\* an optional serialization, a file, and a format that is not accepted
C6_Witness ==
    /\ pc = "serializationChecked"
    /\ ~disableSerializationCheck
    /\ profile.serialization = "optional"
    /\ SerCaseBadFormat
    /\ ~obs.valid

\* the extensions the mapping of a MIME type is written for
MappedExtensions(m) ==
    CASE m = "application/x-7z-compressed" -> {<<"7", "z">>}
      [] m = "application/tar" -> {<<"t", "a", "r">>}
      [] m = "application/zip" -> {<<"z", "i", "p">>}
      [] m = "application/gzip" -> {<<"g", "z", "i", "p">>, <<"g", "z">>}
      [] m = "application/x-rar" -> {<<"r", "a", "r">>}
      [] m = "application/tar+gzip" -> {<<"t", "g", "z">>,
                                        <<"t", "a", "r", ".", "g", "z">>}
      [] OTHER -> {}

\* the path ends with a literal '.' and an extension mapped to a MIME type
\* of the list
EndsWithAcceptedExtension(path, accept) ==
    \E i \in 1..Len(accept) : \E ext \in MappedExtensions(accept[i]) :
        EndsWith(CharsOf(path), <<".">> \o ext)

\* C7.  Format validation accepts a serialized bag if and only if, for a
\* MIME type of profile.acceptSerialization that has a mapping, the path
\* ends with a literal '.' followed by the mapped extension; a MIME type
\* without a mapping makes no bag acceptable.
C7_FormatAcceptsLiteralExtension ==
    pc = "serializationChecked" /\ ~disableSerializationCheck /\ ~fsys.isDirectory
    /\ profile.serialization \in {"required", "optional"}
    => (obs.valid <=> EndsWithAcceptedExtension(pathToBag, profile.acceptSerialization))

-----------------------------------------------------------------------------
(* The checks of _validateFormatAndContents on their own: the bag has been
   scanned and read, every stream has ended and every hasher has finished *)

RECURSIVE FoundInBag(_, _, _)
\* the algorithms the 'entry' listener of Validator._scanBag adds to found
\* for these entries: of the payload manifests, or of the tag manifests
FoundInBag(entries, manifestType, found) ==
    IF entries = <<>> THEN found
    ELSE LET relPath == CleanEntryRelPath(Head(entries).relPath)
             counts == IF manifestType = PAYLOAD_MANIFEST
                       THEN MatchesREManifest(relPath)
                       ELSE ~MatchesREManifest(relPath) /\ MatchesRETagManifest(relPath)
         IN FoundInBag(Tail(entries), manifestType,
                       IF counts THEN PushNew(found, AlgorithmOfScanned(relPath))
                       ELSE found)

\* a file after _readEntry and _readFile have seen its entry, its parser
\* the whole of it, and every hasher of algs has written its digest
FileRead(entry, algs) ==
    LET f == NewBagItFile(CleanEntryRelPath(entry.relPath), entry.size)
    IN [relDestPath |-> f.relDestPath, size |-> f.size, fileType |-> f.fileType,
        checksums |-> [a \in Range(algs) |-> HexDigest(a, entry.bytes)],
        keyValueCollection |-> IF HasParser(f) THEN ParseLines(<<>>, entry.lines)
                               ELSE Null]

RECURSIVE FilesAfterRead(_, _, _)
\* Validator.files after the read of these entries, from the files fs
FilesAfterRead(entries, algs, fs) ==
    IF entries = <<>> THEN fs
    ELSE CHOOSE after \in
            {FilesAfterRead(Tail(entries), algs, next) :
                next \in {IF Head(entries).type = "file"
                          THEN FilesPut(fs, FileRead(Head(entries), algs))
                          ELSE fs}} : TRUE

VerifyMaxPayload == 2
MaxManifestLines == 2

\* a line of a manifest: the digest of the file, another digest, or none
\* (a line that starts with white space gives the parser an empty digest)
DigestKinds == {"good", "bad", "empty"}

LineDigest(kind, alg, bytes) ==
    CASE kind = "good" -> HexDigest(alg, bytes)
      [] kind = "bad" -> BadDigest
      [] OTHER -> <<>>

ManifestLineChoices(alg) ==
    {Line(PayloadPath(k), LineDigest(d, alg, PayloadEntry(k).bytes)) :
        k \in 1..VerifyMaxPayload, d \in DigestKinds}

ManifestLineLists(alg) ==
    UNION {[1..n -> ManifestLineChoices(alg)] : n \in 0..MaxManifestLines}

\* A bag for the checks: nPayload payload files; manifest-md5.txt with any
\* lines about payload files, which may be in the bag or not; with second,
\* manifest-sha256.txt, which lists every payload file ("all") or nothing
\* ("none"); with tagManifest, tagmanifest-md5.txt with a line for
\* manifest-md5.txt ("good", "bad") or for a tag file that is not there
\* ("missing")
VerifyBagEntries(nPayload, lines, second, tagManifest) ==
    LET payload == [n \in 1..nPayload |-> PayloadEntry(n)]
        md5 == ManifestEntry(PAYLOAD_MANIFEST, "md5", lines)
        sha256 ==
            IF second = "absent" THEN <<>>
            ELSE <<ManifestEntry(PAYLOAD_MANIFEST, "sha256",
                      IF second = "none" THEN <<>>
                      ELSE [n \in 1..nPayload |->
                               Line(PayloadPath(n),
                                    HexDigest("sha256", PayloadEntry(n).bytes))])>>
        tag ==
            IF tagManifest = "absent" THEN <<>>
            ELSE <<ManifestEntry(TAG_MANIFEST, "md5",
                      IF tagManifest = "missing"
                      THEN <<Line(<<"custom", DOT, "txt">>, BadDigest)>>
                      ELSE <<Line(md5.relPath,
                                  LineDigest(tagManifest, "md5", md5.bytes))>>)>>
    IN <<BagItTxtEntry, DirEntry(<<"data">>)>> \o payload \o <<md5>> \o sha256 \o tag

\* the bags for the checks of the manifest entries, in a directory
ManifestCases ==
    {[path |-> DirPath, isDirectory |-> TRUE, profile |-> BaseProfile,
      entries |-> VerifyBagEntries(n, lines, second, tagManifest)] :
        n \in 0..VerifyMaxPayload, lines \in ManifestLineLists("md5"),
        second \in {"absent", "all", "none"},
        tagManifest \in {"absent", "good", "bad", "missing"}}

\* a number below 100 as the string of its decimal digits
Digits(n) ==
    IF n < 10 THEN <<Numerals[n + 1]>>
    ELSE <<Numerals[(n \div 10) + 1], Numerals[(n % 10) + 1]>>

\* the value 'B.N' of a Payload-Oxum tag
OxumValue(oxumBytes, oxumFiles) == Digits(oxumBytes) \o <<DOT>> \o Digits(oxumFiles)

SourceOrganizationLine == Line("Source-Organization", <<"Acme">>)

ExtraPath == <<"data", SLASH, "extra">>
ExtraSizes == {0, 6}

\* a payload file that no manifest lists
ExtraEntry(size) == FileEntry(ExtraPath, size, <<"bytes of", "extra">>, <<>>)

\* the manifest of the algorithm that lists each of the first nPayload
\* payload files with its digest
FullManifestEntry(manifestType, alg, nPayload) ==
    ManifestEntry(manifestType, alg,
                  [n \in 1..nPayload |->
                      Line(PayloadPath(n), HexDigest(alg, PayloadEntry(n).bytes))])

\* A bag that meets BaseProfile but for what bag-info.txt says and for the
\* extra payload files: nPayload payload files, all in manifest-md5.txt and,
\* with second, in manifest-sha256.txt; bag-info.txt with these lines, if any
ListedBagEntries(nPayload, second, bagInfo, extra) ==
    <<BagItTxtEntry>> \o bagInfo \o <<DirEntry(<<"data">>)>>
    \o [n \in 1..nPayload |-> PayloadEntry(n)] \o extra
    \o <<FullManifestEntry(PAYLOAD_MANIFEST, "md5", nPayload)>>
    \o (IF second THEN <<FullManifestEntry(PAYLOAD_MANIFEST, "sha256", nPayload)>>
        ELSE <<>>)

\* the values of Payload-Oxum tried for a bag: every B.N with the bytes and
\* the number of the listed files, of all files, or one more; an empty
\* value, a value without a dot, and a value that is no number
OxumValues(nPayload, extraSize) ==
    LET listedBytes == SumSizes([n \in 1..nPayload |-> PayloadEntry(n)])
    IN {OxumValue(b, n) :
           b \in {listedBytes, listedBytes + extraSize, listedBytes + 1},
           n \in {nPayload, nPayload + 1}}
       \cup {<<>>, Digits(listedBytes), <<"x", DOT, "y">>}

\* the bags for the Payload-Oxum check and the check for payload files that
\* no manifest lists
OxumCases ==
    UNION {
        {[path |-> DirPath, isDirectory |-> TRUE, profile |-> BaseProfile,
          entries |-> ListedBagEntries(n, second, bagInfo, extra)] :
            second \in BOOLEAN,
            extra \in {<<>>} \cup {<<ExtraEntry(size)>> : size \in ExtraSizes},
            bagInfo \in {<<>>, <<BagInfoTxtEntry(<<SourceOrganizationLine>>)>>}
                        \cup {<<BagInfoTxtEntry(<<SourceOrganizationLine,
                                                  Line("Payload-Oxum", v)>>)>> :
                                 v \in UNION {OxumValues(n, size) : size \in ExtraSizes}}}
        : n \in 0..VerifyMaxPayload}

MaxPatterns == 2

CustomTagPath == <<"custom", SLASH, "t", DOT, "txt">>
OtherTagPath == <<"other", DOT, "txt">>

\* the patterns of tagFilesAllowed tried: none, "*", and two that name files
AllowPatterns == {<<>>, <<STAR>>, <<"custom", SLASH, STAR>>, BagInfoTxt}

AllowLists == UNION {[1..n -> AllowPatterns] : n \in 0..MaxPatterns}

\* the bags for the check of the tag files allowed: a valid bag with any of
\* three tag files next to bagit.txt, and a profile with any list of patterns
AllowCases ==
    {[path |-> DirPath, isDirectory |-> TRUE,
      profile |-> [BaseProfile EXCEPT !.tagFilesAllowed = allowed],
      entries |-> ListedBagEntries(1, FALSE,
                     (IF withBagInfo THEN <<BagInfoTxtEntry(<<SourceOrganizationLine>>)>>
                      ELSE <<>>)
                     \o (IF withCustom THEN <<TagFileEntry(CustomTagPath, <<>>)>> ELSE <<>>)
                     \o (IF withOther THEN <<TagFileEntry(OtherTagPath, <<>>)>> ELSE <<>>),
                     <<>>)] :
        allowed \in AllowLists, withBagInfo \in BOOLEAN, withCustom \in BOOLEAN,
        withOther \in BOOLEAN}

MaxTagLines == 2

\* a tag file that _readFile gives no parser: its name does not end in .txt
NotesPath == <<"notes">>

TagValues == {<<>>, <<"Acme">>, <<"Other">>}

TagLineLists ==
    UNION {[1..n -> {Line("Source-Organization", v) : v \in TagValues}
                    \cup {Line("Contact-Name", <<"Ann">>)}] :
              n \in 0..MaxTagLines}

\* the definitions of BaseProfile for bagit.txt, one for Source-Organization
\* in bag-info.txt, and with notes one for a tag in the file notes
TagCaseTags(required, values, notes) ==
    SubSeq(DefaultTags, 1, 2)
    \o <<[tagFile |-> BagInfoTxt, tagName |-> "Source-Organization",
          required |-> required, values |-> values]>>
    \o (IF notes THEN <<[tagFile |-> NotesPath, tagName |-> "Note",
                         required |-> TRUE, values |-> <<>>]>>
        ELSE <<>>)

\* the bags for the check of the tags: a bag with or without bag-info.txt,
\* with any lines for Source-Organization in it, with or without the file
\* notes; a profile in which Source-Organization is required or not, with
\* values or without
TagCases ==
    {[path |-> DirPath, isDirectory |-> TRUE,
      profile |-> [BaseProfile EXCEPT !.tags = TagCaseTags(required, values, notes)],
      entries |-> ListedBagEntries(1, FALSE,
                     bagInfo \o (IF notesFile THEN <<TagFileEntry(NotesPath, <<>>)>>
                                 ELSE <<>>),
                     <<>>)] :
        required \in BOOLEAN, values \in {<<>>, <<<<"Acme">>>>, <<<<"Acme">>, <<"York">>>>},
        notes \in BOOLEAN, notesFile \in BOOLEAN,
        bagInfo \in {<<>>} \cup {<<BagInfoTxtEntry(lines)>> : lines \in TagLineLists}}

\* the bags for the check of the directory a tar file untars to: a tar
\* file b.tar that holds the bag under b or under c, a directory b.tar, and
\* a directory b; the bag valid, or with a payload file that no manifest
\* lists; the profile with tarDirMustMatchName or without
UntarCases ==
    {[path |-> place.path, isDirectory |-> place.isDirectory,
      profile |-> [BaseProfile EXCEPT !.tarDirMustMatchName = mustMatch],
      entries |-> WithRoot(place.root,
                     ListedBagEntries(1, FALSE,
                         <<BagInfoTxtEntry(<<SourceOrganizationLine>>)>>, extra))] :
        place \in {[path |-> TarPath, isDirectory |-> FALSE, root |-> <<"b">>],
                   [path |-> TarPath, isDirectory |-> FALSE, root |-> <<"c">>],
                   [path |-> TarPath, isDirectory |-> TRUE, root |-> <<>>],
                   [path |-> DirPath, isDirectory |-> TRUE, root |-> <<>>]},
        mustMatch \in BOOLEAN,
        extra \in {<<>>, <<ExtraEntry(6)>>}}

AlgorithmLists == {<<>>, <<"md5">>, <<"sha256">>, <<"md5", "sha256">>}

\* the tag manifest of the algorithm, which lists bagit.txt with its digest
BagItTxtTagManifest(alg) ==
    ManifestEntry(TAG_MANIFEST, alg, <<Line(BagItTxt, HexDigest(alg, BagItTxtEntry.bytes))>>)

\* the bags for the checks of the manifests required and allowed: a bag
\* with a right payload manifest for each algorithm of one list and a right
\* tag manifest for each of another; a profile that requires and allows any
\* of the lists
ManifestListCases ==
    {[path |-> DirPath, isDirectory |-> TRUE,
      profile |-> [BaseProfile EXCEPT !.manifestsRequired = required,
                                      !.tagManifestsRequired = tagRequired,
                                      !.manifestsAllowed = allowed,
                                      !.tagManifestsAllowed = tagAllowed],
      entries |-> <<BagItTxtEntry, BagInfoTxtEntry(<<SourceOrganizationLine>>),
                    DirEntry(<<"data">>), PayloadEntry(1)>>
                  \o [i \in 1..Len(inBag) |->
                         FullManifestEntry(PAYLOAD_MANIFEST, inBag[i], 1)]
                  \o [i \in 1..Len(tagInBag) |-> BagItTxtTagManifest(tagInBag[i])]] :
        required \in AlgorithmLists, tagRequired \in AlgorithmLists,
        allowed \in AlgorithmLists \ {<<>>}, tagAllowed \in AlgorithmLists \ {<<>>},
        inBag \in AlgorithmLists, tagInBag \in AlgorithmLists}

RECURSIVE BagRootFromRead(_)
\* bagRoot after _readEntry has seen these entries, when the scan left it
\* null: the first directory whose clean path is empty or is its own path
BagRootFromRead(entries) ==
    IF entries = <<>> THEN Null
    ELSE LET entry == Head(entries)
             relPath == CleanEntryRelPath(entry.relPath)
         IN IF entry.type = "dir"
               /\ (relPath = <<>> \/ relPath = StripTrailingSlash(entry.relPath))
            THEN StripTrailingSlash(entry.relPath)
            ELSE BagRootFromRead(Tail(entries))

\* bagRoot after the scan and the read of these entries: the 'entry'
\* listener of _scanBag sets it from the first entry of a bag whose name
\* ends with .tar, and _readEntry from a directory when it is still null
BagRootAfter(entries) ==
    IF ReadingFromTar(pathToBag) /\ entries # <<>>
    THEN Split(entries[1].relPath, SLASH)[1]
    ELSE BagRootFromRead(entries)

\* the state when _validateFormatAndContents is about to run on one of
\* these bags
InitCases(cases) ==
    /\ \E case \in cases :
          /\ pathToBag = case.path
          /\ fsys = [exists |-> TRUE, isDirectory |-> case.isDirectory,
                     entries |-> case.entries]
          /\ profile = case.profile
    /\ disableSerializationCheck = FALSE
    /\ slowMotionDelay = 0
    /\ pc = "verifying"
    /\ reader = [NewReader(GetNewReader, "read") EXCEPT
                    !.next = Len(fsys.entries) + 1, !.stopped = TRUE]
    /\ readersCreated = 2
    /\ \E entries \in {fsys.entries} : bagRoot = BagRootAfter(entries)
    /\ manifestAlgorithmsFoundInBag = FoundInBag(fsys.entries, PAYLOAD_MANIFEST, <<>>)
    /\ tagManifestAlgorithmsFoundInBag = FoundInBag(fsys.entries, TAG_MANIFEST, <<>>)
    /\ \E algs \in {CryptoHashAlgorithms}, entries \in {fsys.entries} :
          files = FilesAfterRead(entries, algs, <<>>)
    /\ errors = <<>>
    /\ hashesInProgress = 0
    /\ initialFileCount = Len(fsys.entries)
    /\ filesChecked = Len(files)
    /\ timers = <<>> /\ streams = {} /\ hashers = {}
    /\ events = <<EvValidateStart>>
    /\ obs = NoObs

\* one check of _validateFormatAndContents: what it appends to errors
Verified(check, errs) ==
    /\ pc = "verifying"
    /\ errors' = errors \o errs
    /\ obs' = [verifying |-> TRUE, check |-> check]
    /\ pc' = "verified"
    /\ UNCHANGED <<inputs, reader, readersCreated, bagRoot, files,
                   manifestAlgorithmsFoundInBag, tagManifestAlgorithmsFoundInBag,
                   hashesInProgress, initialFileCount, filesChecked, timers,
                   streams, hashers, events>>

\* the call of Validator._validateManifestEntries
CheckManifestEntries(manifestType) ==
    Verified(manifestType, ValidateManifestEntries(files, manifestType))

\* the call of Validator._validateNoExtraneousPayloadFiles
CheckNoExtraneousPayloadFiles ==
    Verified("extraneous", ValidateNoExtraneousPayloadFiles(files))

\* the call of Validator._validatePayloadOxum
CheckPayloadOxum == Verified("oxum", ValidatePayloadOxum(files))

\* the call of Validator._validateUntarDirectory
CheckUntarDirectory ==
    Verified("untar", ValidateUntarDirectory(pathToBag, profile, bagRoot))

\* the call of Validator._validateRequiredManifests
CheckRequiredManifests(manifestType) ==
    Verified(IF manifestType = TAG_MANIFEST THEN "requiredTagManifests"
             ELSE "requiredManifests",
             ValidateRequiredManifests(files, profile, manifestType))

\* the call of Validator._validateAllowedManifests
CheckAllowedManifests(manifestType) ==
    Verified(IF manifestType = TAG_MANIFEST THEN "allowedTagManifests"
             ELSE "allowedManifests",
             ValidateAllowedManifests(profile, manifestAlgorithmsFoundInBag,
                                      tagManifestAlgorithmsFoundInBag, manifestType))

\* the call of Validator._validateAllowedTagFiles
CheckAllowedTagFiles == Verified("allowedTagFiles", ValidateAllowedTagFiles(files, profile))

\* the call of Validator._validateTags
CheckTags == Verified("tags", ValidateTags(files, profile))

\* Validator._validateFormatAndContents, with all its checks and the 'end'
\* it emits
CheckFormatAndContents ==
    /\ pc = "verifying"
    /\ LET v == ValidateFormatAndContents(pathToBag, profile, bagRoot, files,
                                          manifestAlgorithmsFoundInBag,
                                          tagManifestAlgorithmsFoundInBag)
       IN /\ errors' = errors \o v.errors
          /\ IF v.threw
             THEN pc' = "crashed" /\ UNCHANGED events
             ELSE pc' = "done" /\ Emit(EvEnd)
    /\ obs' = [verifying |-> TRUE, check |-> "all"]
    /\ UNCHANGED <<inputs, reader, readersCreated, bagRoot, files,
                   manifestAlgorithmsFoundInBag, tagManifestAlgorithmsFoundInBag,
                   hashesInProgress, initialFileCount, filesChecked, timers,
                   streams, hashers>>

InitVerify == InitCases(ManifestCases)

NextVerify ==
    \/ \E manifestType \in {PAYLOAD_MANIFEST, TAG_MANIFEST} :
          CheckManifestEntries(manifestType)
    \/ CheckNoExtraneousPayloadFiles

SpecVerify == InitVerify /\ [][NextVerify]_vars

\* the errors about this file name in this manifest
ErrorsAbout(manifest, filename) ==
    {i \in 1..Len(errors) :
        errors[i].manifest = manifest.relDestPath /\ errors[i].file = filename}

\* the entries of the manifest that name the file and deserve an error: the
\* file is not in files, or its checksum is not the digest of the entry
FailingEntries(manifest, filename) ==
    LET kv == manifest.keyValueCollection
        alg == AlgorithmOfManifest(manifest.relDestPath)
    IN {k \in 1..Len(kv) :
           /\ kv[k][1] = filename
           /\ \/ ~HasFile(files, filename)
              \/ Checksum(FileAt(files, filename), alg) # kv[k][2]}

\* C9.  Manifest entry verification: for each payload manifest and tag
\* manifest (algorithm from its file name) and each entry (filename,
\* digest) of it, one error is appended if filename is not in files,
\* otherwise one error if and only if files[filename].checksums[alg]
\* differs from digest; the check appends nothing else.
C9_OneErrorPerFailingEntry ==
    pc = "verified" /\ obs.check \in {PAYLOAD_MANIFEST, TAG_MANIFEST} =>
        LET manifests == ManifestsOfType(files, obs.check)
        IN /\ \A m \in 1..Len(manifests) :
                 \A k \in 1..Len(manifests[m].keyValueCollection) :
                    LET filename == manifests[m].keyValueCollection[k][1]
                    IN Cardinality(ErrorsAbout(manifests[m], filename))
                          = Cardinality(FailingEntries(manifests[m], filename))
           /\ \A i \in 1..Len(errors) :
                 /\ errors[i].kind \in {"MissingFromBag", "BadDigest"}
                 /\ errors[i].kind = "MissingFromBag" <=> ~HasFile(files, errors[i].file)
                 /\ \E m \in 1..Len(manifests) :
                       /\ manifests[m].relDestPath = errors[i].manifest
                       /\ FailingEntries(manifests[m], errors[i].file) # {}

\* C10.  Extraneous payload check: for each payload manifest M and each
\* payload file f, an error is appended if and only if the relative path
\* of f is not a key of M's parsed collection.
C10_ErrorIffNotAKey ==
    pc = "verified" /\ obs.check = "extraneous" =>
        \A m \in Range(PayloadManifests(files)), f \in Range(PayloadFiles(files)) :
            (\E i \in 1..Len(errors) :
                errors[i] = [kind |-> "PayloadNotInManifest", file |-> f.relDestPath,
                             manifest |-> m.relDestPath])
            <=> ~Contains(KVKeys(m.keyValueCollection), f.relDestPath)

\* A run without delay leaves the files as FilesAfterRead gives them
ReadGivesFilesAfterRead ==
    obs.verifying /\ slowMotionDelay = 0 /\ obs.timers = <<>> =>
        /\ obs.files = FilesAfterRead(fsys.entries, CryptoHashAlgorithms, <<>>)
        /\ manifestAlgorithmsFoundInBag = FoundInBag(fsys.entries, PAYLOAD_MANIFEST, <<>>)
        /\ tagManifestAlgorithmsFoundInBag = FoundInBag(fsys.entries, TAG_MANIFEST, <<>>)

-----------------------------------------------------------------------------
(* The other checks of _validateFormatAndContents, and all of them in a row *)

CheckCases ==
    OxumCases \cup AllowCases \cup TagCases \cup UntarCases \cup ManifestListCases

InitChecks == InitCases(CheckCases)

NextChecks ==
    \/ NextVerify
    \/ CheckUntarDirectory
    \/ \E manifestType \in {PAYLOAD_MANIFEST, TAG_MANIFEST} :
          \/ CheckRequiredManifests(manifestType)
          \/ CheckAllowedManifests(manifestType)
    \/ CheckAllowedTagFiles
    \/ CheckPayloadOxum
    \/ CheckTags
    \/ CheckFormatAndContents

SpecChecks == InitChecks /\ [][NextChecks]_vars

-----------------------------------------------------------------------------
(* The Payload-Oxum check *)

\* the values of the tag in the parsed bag-info.txt; none when the bag has
\* no bag-info.txt
BagInfoValues(tagName) ==
    IF HasFile(files, BagInfoTxt)
       /\ FileAt(files, BagInfoTxt).keyValueCollection # Null
       /\ Contains(KVKeys(FileAt(files, BagInfoTxt).keyValueCollection), tagName)
    THEN KVAll(FileAt(files, BagInfoTxt).keyValueCollection, tagName)
    ELSE <<>>

OxumFilesError(expected) ==
    [kind |-> "OxumFiles", expected |-> expected, found |-> Len(PayloadFiles(files))]

OxumBytesError(expected) ==
    [kind |-> "OxumBytes", expected |-> expected, found |-> SumSizes(PayloadFiles(files))]

\* C13: with a Payload-Oxum tag 'B.N' in bag-info.txt the check reports one
\* error exactly when N is not the number of payload files and, apart from
\* that, one error exactly when B is not the sum of their sizes; without
\* the tag, or without bag-info.txt, it reports nothing
C13_PayloadOxum ==
    obs.verifying /\ obs.check = "oxum" =>
        /\ BagInfoValues("Payload-Oxum") = <<>> => errors = <<>>
        /\ \A B \in 0..99, N \in 0..9 :
              BagInfoValues("Payload-Oxum") # <<>>
              /\ BagInfoValues("Payload-Oxum")[1] = OxumValue(B, N)
              => errors =
                    (IF N # Len(PayloadFiles(files)) THEN <<OxumFilesError(N)>> ELSE <<>>)
                    \o (IF B # SumSizes(PayloadFiles(files))
                        THEN <<OxumBytesError(B)>> ELSE <<>>)

\* a bag whose Payload-Oxum has the bytes wrong and the number of files
\* wrong, with the two errors, and a payload file to count
C13_Witness ==
    /\ obs.verifying /\ obs.check = "oxum"
    /\ Len(PayloadFiles(files)) = 2
    /\ BagInfoValues("Payload-Oxum") = <<OxumValue(SumSizes(PayloadFiles(files)) + 1, 3)>>
    /\ errors = <<OxumFilesError(3), OxumBytesError(SumSizes(PayloadFiles(files)) + 1)>>

-----------------------------------------------------------------------------
(* A payload file added to a valid bag *)

\* the files of the bag but for the one of this path
FilesWithout(path) ==
    SelectIdx(files, [i \in 1..Len(files) |-> files[i].relDestPath # path], 1)

\* the bag is valid without the payload file f, which no manifest lists
AddedToValidBag(f) ==
    /\ IsPayloadFile(f)
    /\ \A i \in 1..Len(PayloadManifests(files)) :
          ~Contains(KVKeys(PayloadManifests(files)[i].keyValueCollection), f.relDestPath)
    /\ \E without \in {FilesWithout(f.relDestPath)} :
          ValidateFormatAndContents(pathToBag, profile, bagRoot, without,
                                    manifestAlgorithmsFoundInBag,
                                    tagManifestAlgorithmsFoundInBag)
          = [errors |-> <<>>, threw |-> FALSE]

\* 'Payload file <path> not found in <manifest>', for each payload manifest
NotFoundInManifests(f) ==
    [i \in 1..Len(PayloadManifests(files)) |->
        [kind |-> "PayloadNotInManifest", file |-> f.relDestPath,
         manifest |-> PayloadManifests(files)[i].relDestPath]]

\* what the Payload-Oxum check says of a bag whose Payload-Oxum was right
\* before f was added
OxumErrorsAfterAdding(f) ==
    IF BagInfoValues("Payload-Oxum") = <<>> \/ BagInfoValues("Payload-Oxum")[1] = <<>>
    THEN <<>>
    ELSE <<OxumFilesError(Len(PayloadFiles(files)) - 1)>>
         \o (IF f.size # 0
             THEN <<OxumBytesError(SumSizes(PayloadFiles(files)) - f.size)>>
             ELSE <<>>)

\* C11: a payload file that no manifest lists, added to a bag that is valid
\* without it, gives the error 'Payload file <path> not found in <manifest>'
\* once for each payload manifest, and no other error
C11_AddedFileOnlyNotFound ==
    obs.verifying /\ obs.check = "all" =>
        \A i \in 1..Len(files) :
            AddedToValidBag(files[i]) => errors = NotFoundInManifests(files[i])

\* C11, amended: the errors are the 'not found' error for each payload
\* manifest and, when bag-info.txt has a Payload-Oxum, the error for the
\* number of files, and the error for the bytes unless the file is empty;
\* and no other error
C11_AddedFileNotFoundAndOxum ==
    obs.verifying /\ obs.check = "all" =>
        \A i \in 1..Len(files) :
            AddedToValidBag(files[i]) =>
                errors = NotFoundInManifests(files[i]) \o OxumErrorsAfterAdding(files[i])

\* a file of six bytes added to a valid bag with two payload manifests and a
\* Payload-Oxum: two 'not found' errors and the two Payload-Oxum errors
C11_Witness ==
    /\ obs.verifying /\ obs.check = "all"
    /\ \E i \in 1..Len(files) :
          /\ AddedToValidBag(files[i])
          /\ files[i].size = 6
          /\ Len(NotFoundInManifests(files[i])) = 2
          /\ Len(OxumErrorsAfterAdding(files[i])) = 2
    /\ Len(errors) = 4

-----------------------------------------------------------------------------
(* The tag files allowed *)

AcceptsAnything(pattern) == pattern = <<>> \/ pattern = <<STAR>>

ReportedNotAllowed(f) ==
    \E i \in 1..Len(errors) :
        errors[i] = [kind |-> "TagFileNotAllowed", file |-> f.relDestPath]

\* C12: when tagFilesAllowed has a pattern that is '*' or empty, no tag file
\* is reported; when it has patterns and none of them is '*' or empty, a tag
\* file other than bagit.txt is reported exactly if it matches none of them
C12_TagFilesAllowed ==
    obs.verifying /\ obs.check = "allowedTagFiles" =>
        LET allowed == profile.tagFilesAllowed
        IN IF \E i \in 1..Len(allowed) : AcceptsAnything(allowed[i])
           THEN errors = <<>>
           ELSE allowed # <<>> =>
                \A k \in 1..Len(TagFiles(files)) :
                    LET f == TagFiles(files)[k]
                    IN ReportedNotAllowed(f)
                       <=> /\ f.relDestPath # BagItTxt
                           /\ \A i \in 1..Len(allowed) :
                                 ~GlobMatch(f.relDestPath, allowed[i])

-----------------------------------------------------------------------------
(* The tags *)

\* the tag file of this name is in the bag and has been parsed
ParsedTagFile(filename) ==
    HasFile(files, filename) /\ FileAt(files, filename).keyValueCollection # Null

\* the values the parsed tag file has for the tag of the definition
PresentValues(tagDef) ==
    IF Contains(KVKeys(FileAt(files, tagDef.tagFile).keyValueCollection), tagDef.tagName)
    THEN KVAll(FileAt(files, tagDef.tagFile).keyValueCollection, tagDef.tagName)
    ELSE <<>>

\* the errors about the tags of this tag file
TagErrorsIn(filename) ==
    SelectIdx(errors,
              [i \in 1..Len(errors) |->
                  errors[i].kind \in {"TagMissing", "TagValueMissing", "TagIllegalValue"}
                  /\ errors[i].file = filename], 1)

\* the errors that say the tag file is not there, or has no data
TagFileErrors(filename) ==
    SelectIdx(errors,
              [i \in 1..Len(errors) |->
                  errors[i].kind \in {"TagFileMissing", "TagFileNoData"}
                  /\ errors[i].file = filename], 1)

ReportedAsMissing(tagDef) ==
    \E i \in 1..Len(errors) :
        /\ errors[i].kind \in {"TagMissing", "TagValueMissing"}
        /\ errors[i].tag = tagDef.tagName /\ errors[i].file = tagDef.tagFile

\* a tag file with definitions that is missing or unparsed gives one error,
\* and none about its tags
C14_TagFileNotThere ==
    obs.verifying /\ obs.check = "tags" =>
        \A i \in 1..Len(profile.tags) :
            ~ParsedTagFile(profile.tags[i].tagFile) =>
                /\ Len(TagFileErrors(profile.tags[i].tagFile)) = 1
                /\ TagErrorsIn(profile.tags[i].tagFile) = <<>>

\* a required tag in a parsed tag file is reported exactly if it has no
\* value that is not empty
C14_ReportedIffNoValue ==
    obs.verifying /\ obs.check = "tags" =>
        \A i \in 1..Len(profile.tags) :
            LET tagDef == profile.tags[i]
            IN tagDef.required /\ ParsedTagFile(tagDef.tagFile) =>
                  (ReportedAsMissing(tagDef)
                   <=> \A k \in 1..Len(PresentValues(tagDef)) :
                          PresentValues(tagDef)[k] = <<>>)

\* C14: a required tag whose tag file is present and parsed is reported
\* exactly if it has no value or none of its values is non-empty, so not
\* when one of several values is non-empty; a tag file with definitions
\* that is missing or unparsed gives one error, and its tags are not checked
C14_RequiredTags == C14_ReportedIffNoValue /\ C14_TagFileNotThere

\* the 'illegal value' errors about the tag of the definition
IllegalValueErrors(tagDef) ==
    SelectIdx(errors,
              [i \in 1..Len(errors) |->
                  errors[i].kind = "TagIllegalValue"
                  /\ errors[i].tag = tagDef.tagName /\ errors[i].file = tagDef.tagFile], 1)

\* one 'illegal value' error, naming the allowed values, for each of these
\* values that is not among the values of the definition
IllegalValueErrorsFor(tagDef, present) ==
    LET illegal == SelectIdx(present,
                             [k \in 1..Len(present) |->
                                 ~Contains(tagDef.values, present[k])], 1)
    IN [k \in 1..Len(illegal) |->
           [kind |-> "TagIllegalValue", tag |-> tagDef.tagName,
            file |-> tagDef.tagFile, value |-> illegal[k],
            allowed |-> tagDef.values]]

\* the values of the tag in the tag file, but for the empty ones when the
\* tag is required
ValuesHeldToList(tagDef) ==
    SelectIdx(PresentValues(tagDef),
              [k \in 1..Len(PresentValues(tagDef)) |->
                  ~(tagDef.required /\ PresentValues(tagDef)[k] = <<>>)], 1)

\* C15: for a definition with values, one 'illegal value' error naming the
\* allowed values for each value of the tag in the tag file that is not
\* among them, and none for the others; none at all for a definition
\* without values
C15_IllegalValues ==
    obs.verifying /\ obs.check = "tags" =>
        \A i \in 1..Len(profile.tags) :
            LET tagDef == profile.tags[i]
            IN ParsedTagFile(tagDef.tagFile) =>
                  IllegalValueErrors(tagDef) =
                     IF tagDef.values # <<>>
                     THEN IllegalValueErrorsFor(tagDef, PresentValues(tagDef))
                     ELSE <<>>

\* C15, amended: as C15, but an empty value of a required tag gets the
\* 'value is missing' error and no 'illegal value' error
C15_IllegalValuesButEmptyRequired ==
    obs.verifying /\ obs.check = "tags" =>
        \A i \in 1..Len(profile.tags) :
            LET tagDef == profile.tags[i]
            IN ParsedTagFile(tagDef.tagFile) =>
                  IllegalValueErrors(tagDef) =
                     IF tagDef.values # <<>>
                     THEN IllegalValueErrorsFor(tagDef, ValuesHeldToList(tagDef))
                     ELSE <<>>

\* a required tag with the allowed value 'Acme' and the values '' and
\* 'Other' in the file: 'value is missing', then one 'illegal value'
C15_Witness ==
    /\ obs.verifying /\ obs.check = "tags"
    /\ \E i \in 1..Len(profile.tags) :
          /\ profile.tags[i].required /\ profile.tags[i].values = <<<<"Acme">>>>
          /\ ParsedTagFile(profile.tags[i].tagFile)
          /\ PresentValues(profile.tags[i]) = <<<<>>, <<"Other">>>>
          /\ Len(IllegalValueErrors(profile.tags[i])) = 1
          /\ IllegalValueErrors(profile.tags[i])[1].value = <<"Other">>
    /\ Len(errors) = 2 /\ errors[1].kind = "TagValueMissing"

-----------------------------------------------------------------------------
(* The directory a tar file untars to *)

\* the directory at the top of the archive
TopLevelDirectory == Split(fsys.entries[1].relPath, SLASH)[1]

UntarErrors ==
    SelectIdx(errors, [i \in 1..Len(errors) |-> errors[i].kind = "UntarDirectory"], 1)

\* with a tar file and tarDirMustMatchName, the error exactly if the top
\* directory is not the name of the tar file without .tar; then no other
\* error, and 'end' is emitted
C16_TarMustMatch ==
    obs.verifying /\ obs.check = "all"
    /\ ~fsys.isDirectory /\ EndsWith(pathToBag, DotTar) /\ profile.tarDirMustMatchName
    => IF TopLevelDirectory # BaseNameExt(pathToBag, DotTar)
       THEN /\ errors = <<[kind |-> "UntarDirectory",
                           expected |-> BaseNameExt(pathToBag, DotTar),
                           found |-> TopLevelDirectory]>>
            /\ Last(events) = EvEnd
       ELSE UntarErrors = <<>>

\* with a directory, or without tarDirMustMatchName, no such error
C16_NeverFailsOtherwise ==
    obs.verifying /\ obs.check = "all"
    /\ (fsys.isDirectory \/ ~profile.tarDirMustMatchName)
    => UntarErrors = <<>>

\* C16: reading from a .tar with tarDirMustMatchName, the untar error is
\* appended exactly if the top directory of the archive is not
\* basename(bagPath, '.tar'); then none of the content checks runs and 'end'
\* is still emitted; when the bag is a directory or the flag is false the
\* check never fails
C16_UntarDirectory == C16_TarMustMatch /\ C16_NeverFailsOtherwise

-----------------------------------------------------------------------------
(* The manifests required and allowed *)

\* the errors for the algorithms of the list whose manifest is not among
\* the files of the bag
MissingManifestErrors(manifestType, algs) ==
    LET missing == SelectIdx(algs,
                             [i \in 1..Len(algs) |->
                                 ~\E k \in 1..Len(files) :
                                     files[k].relDestPath = <<manifestType, DASH, algs[i],
                                                              DOT, "txt">>], 1)
    IN [i \in 1..Len(missing) |->
           [kind |-> "MissingManifest", type |-> manifestType,
            file |-> <<manifestType, DASH, missing[i], DOT, "txt">>]]

\* C17: for each algorithm A of manifestsRequired an error is appended
\* exactly if manifest-A.txt is not among the files of the bag, and for each
\* A of tagManifestsRequired exactly if tagmanifest-A.txt is not
C17_RequiredManifests ==
    /\ obs.verifying /\ obs.check = "requiredManifests" =>
          errors = MissingManifestErrors(PAYLOAD_MANIFEST, profile.manifestsRequired)
    /\ obs.verifying /\ obs.check = "requiredTagManifests" =>
          errors = MissingManifestErrors(TAG_MANIFEST, profile.tagManifestsRequired)

\* md5 and sha256 tag manifests required, only the md5 one in the bag: one
\* error, for tagmanifest-sha256.txt
C17_Witness ==
    /\ obs.verifying /\ obs.check = "requiredTagManifests"
    /\ profile.tagManifestsRequired = <<"md5", "sha256">>
    /\ profile.manifestsRequired = <<"md5">>
    /\ HasFile(files, ManifestName(TAG_MANIFEST, "md5"))
    /\ errors = <<[kind |-> "MissingManifest", type |-> TAG_MANIFEST,
                   file |-> ManifestName(TAG_MANIFEST, "sha256")]>>

\* the algorithm in the name of a manifest, manifest-<alg>.txt or
\* tagmanifest-<alg>.txt
AlgorithmInName(relDestPath) == relDestPath[3]

\* the manifests of the type among the files of the bag whose algorithm is
\* not in the list
ManifestsNotIn(manifestType, allowed) ==
    SelectIdx(files,
              [k \in 1..Len(files) |->
                  /\ files[k].fileType = manifestType
                  /\ ~\E i \in 1..Len(allowed) :
                         allowed[i] = AlgorithmInName(files[k].relDestPath)], 1)

NotAllowedErrors(manifestType, allowed) ==
    [k \in 1..Len(ManifestsNotIn(manifestType, allowed)) |->
        [kind |-> "ManifestNotAllowed", type |-> manifestType,
         alg |-> AlgorithmInName(ManifestsNotIn(manifestType, allowed)[k].relDestPath)]]

\* an error for each payload manifest algorithm in the bag that is not in
\* manifestsAllowed, for each tag manifest algorithm that is not in
\* tagManifestsAllowed, and for no other
C18_NotAllowedReported ==
    /\ obs.verifying /\ obs.check = "allowedManifests" =>
          errors = NotAllowedErrors(PAYLOAD_MANIFEST, profile.manifestsAllowed)
    /\ obs.verifying /\ obs.check = "allowedTagManifests" =>
          errors = NotAllowedErrors(TAG_MANIFEST, profile.tagManifestsAllowed)

\* the bytes of the file of this path in the bag
BytesInBag(relPath) ==
    fsys.entries[CHOOSE k \in 1..Len(fsys.entries) : fsys.entries[k].relPath = relPath].bytes

\* the manifest is verified against the digests of the files: a file it
\* lists and the bag has gets a digest error exactly if the manifest has
\* another digest for it than the file has
VerifiedAgainstDigests(manifest) ==
    \A n \in 1..Len(manifest.keyValueCollection) :
        LET filename == manifest.keyValueCollection[n][1]
        IN HasFile(files, filename) =>
              ((\E i \in 1..Len(errors) :
                   /\ errors[i].kind = "BadDigest"
                   /\ errors[i].manifest = manifest.relDestPath
                   /\ errors[i].file = filename)
               <=> KVFirst(manifest.keyValueCollection, filename)
                   # HexDigest(AlgorithmInName(manifest.relDestPath), BytesInBag(filename)))

\* a manifest that is not allowed is verified all the same
C18_NotAllowedStillVerified ==
    obs.verifying /\ obs.check = "all" /\ pathToBag = DirPath =>
        /\ \A k \in 1..Len(ManifestsNotIn(PAYLOAD_MANIFEST, profile.manifestsAllowed)) :
              VerifiedAgainstDigests(ManifestsNotIn(PAYLOAD_MANIFEST,
                                                    profile.manifestsAllowed)[k])
        /\ \A k \in 1..Len(ManifestsNotIn(TAG_MANIFEST, profile.tagManifestsAllowed)) :
              VerifiedAgainstDigests(ManifestsNotIn(TAG_MANIFEST,
                                                    profile.tagManifestsAllowed)[k])

\* C18: for each payload manifest algorithm found in the bag an error is
\* appended exactly if it is not in manifestsAllowed, and for each tag
\* manifest algorithm found exactly if it is not in tagManifestsAllowed; a
\* manifest that is not allowed is still verified against the computed
\* digests
C18_AllowedManifests == C18_NotAllowedReported /\ C18_NotAllowedStillVerified

-----------------------------------------------------------------------------
(* BagItUtil.profileFromStandardObject: the import of a profile in the
   standard form.  A JavaScript object is a function from the keys it has;
   a string is a sequence of tokens, as above. *)

\* obj[key]: undefined when the object has no such key
Get(obj, key) == IF key \in DOMAIN obj THEN obj[key] ELSE Undefined

\* a || b, for a an array, a string or undefined
JsOr(a, b) == IF a = Undefined \/ a = Null \/ a = <<>> THEN b ELSE a

\* a || b, for a an array or undefined: an array, even an empty one, is truthy
JsOrArray(a, b) == IF a = Undefined THEN b ELSE a

\* Constants.DIGEST_ALGORITHMS
DIGEST_ALGORITHMS == <<"md5", "sha1", "sha224", "sha256", "sha384", "sha512">>

\* new TagDefinition({tagFile, tagName})
NewTagDefinition(tagFile, tagName) ==
    [tagFile |-> tagFile, tagName |-> tagName, required |-> FALSE, values |-> <<>>,
     defaultValue |-> <<>>]

BagInfoTagNames ==
    <<"Bag-Count", "Bag-Group-Identifier", "Bag-Size", "Bagging-Date",
      "Bagging-Software", "Contact-Email", "Contact-Name", "Contact-Phone",
      "External-Description", "External-Identifier", "Internal-Sender-Description",
      "Internal-Sender-Identifier", "Organization-Address", "Payload-Oxum",
      "Source-Organization">>

\* the tags of new BagItProfile(): two of bagit.txt and fifteen of
\* bag-info.txt
NewProfileTags ==
    <<[NewTagDefinition(BagItTxt, "BagIt-Version") EXCEPT
          !.required = TRUE, !.defaultValue = <<"0", DOT, "97">>],
      [NewTagDefinition(BagItTxt, "Tag-File-Character-Encoding") EXCEPT
          !.required = TRUE, !.defaultValue = <<"UTF", DASH, "8">>]>>
    \o [i \in 1..Len(BagInfoTagNames) |-> NewTagDefinition(BagInfoTxt, BagInfoTagNames[i])]

\* BagItProfile.findMatchingTags("tagName", tagName): where they are in tags
FindMatchingTags(tags, tagName) == {i \in 1..Len(tags) : tags[i].tagName = tagName}

\* the body of the loop over Object.keys(obj["Bag-Info"]).  The function
\* handed to filter, t => t.tagFile = "bag-info.txt", is an assignment: it
\* writes the tag file of every tag found and keeps them all.
ImportTag(tags, tagName, tag) ==
    LET found == FindMatchingTags(tags, tagName)
        filtered == [i \in 1..Len(tags) |->
                        IF i \in found THEN [tags[i] EXCEPT !.tagFile = BagInfoTxt]
                        ELSE tags[i]]
        withTagDef == IF found # {} THEN filtered
                      ELSE Append(tags, NewTagDefinition(BagInfoTxt, tagName))
        at == IF found # {} THEN CHOOSE i \in found : \A j \in found : i <= j
              ELSE Len(tags) + 1
        values == JsOrArray(Get(tag, "values"), <<>>)
    IN [withTagDef EXCEPT
           ![at].required = IF "required" \in DOMAIN tag THEN tag["required"] ELSE FALSE,
           ![at].values = values,
           ![at].defaultValue =
               IF "values" \in DOMAIN tag /\ Len(tag["values"]) = 1 THEN tag["values"][1]
               ELSE JsOr(Get(tag, "defaultValue"), Null)]

RECURSIVE ImportTags(_, _)
\* the loop over Object.keys(obj["Bag-Info"]): bagInfo is the sequence of
\* the keys with their values
ImportTags(tags, bagInfo) ==
    IF bagInfo = <<>> THEN tags
    ELSE CHOOSE after \in
            {ImportTags(next, Tail(bagInfo)) :
                next \in {ImportTag(tags, Head(bagInfo)[1], Head(bagInfo)[2])}} : TRUE

\* profileFromStandardObject with [] where 'Tag-Manifests-Allowed' is absent
ProfileFromStandardObjectNoneAllowed(obj) ==
    [isNull |-> FALSE,
     manifestsRequired |-> Get(obj, "Manifests-Required"),
     manifestsAllowed |-> JsOrArray(Get(obj, "Manifests-Allowed"), DIGEST_ALGORITHMS),
     tagManifestsRequired |-> JsOrArray(Get(obj, "Tag-Manifests-Required"), <<>>),
     tagManifestsAllowed |-> JsOrArray(Get(obj, "Tag-Manifests-Allowed"), <<>>),
     tagFilesAllowed |-> JsOrArray(Get(obj, "Tag-Files-Allowed"), <<<<STAR>>>>),
     tags |-> ImportTags(NewProfileTags, obj["Bag-Info"])]

\* BagItUtil.profileFromStandardObject: the lists and the tags of the
\* profile it returns
ProfileFromStandardObject(obj) ==
    [isNull |-> FALSE,
     manifestsRequired |-> Get(obj, "Manifests-Required"),
     manifestsAllowed |-> JsOrArray(Get(obj, "Manifests-Allowed"), DIGEST_ALGORITHMS),
     tagManifestsRequired |-> JsOrArray(Get(obj, "Tag-Manifests-Required"), <<>>),
     tagManifestsAllowed |-> JsOrArray(Get(obj, "Tag-Manifests-Allowed"), DIGEST_ALGORITHMS),
     tagFilesAllowed |-> JsOrArray(Get(obj, "Tag-Files-Allowed"), <<<<STAR>>>>),
     tags |-> ImportTags(NewProfileTags, obj["Bag-Info"])]

MaxBagInfoKeys == 2

\* the keys of the standard form that the import gives a default
OptionalKeys ==
    {"Manifests-Allowed", "Tag-Manifests-Required", "Tag-Manifests-Allowed",
     "Tag-Files-Allowed"}

\* the lists tried as the value of a key that is present
ListChoices == <<<<>>, <<"md5">>, <<"sha256", "md5">>>>

\* the names tried as keys of Bag-Info: a tag new BagItProfile() defines in
\* bag-info.txt, one it defines in bagit.txt, and one it does not define
ImportTagNames == {"Source-Organization", "BagIt-Version", "Custom-Tag"}

\* the values tried under a key of Bag-Info
TagSpecs ==
    <<[values |-> <<>>],
      [required |-> TRUE],
      [required |-> TRUE, values |-> <<<<"Acme">>>>],
      [required |-> FALSE, values |-> <<<<"Acme">>, <<"York">>>>,
       defaultValue |-> <<"Other">>],
      [required |-> TRUE, values |-> <<<<"Acme">>>>, defaultValue |-> <<"Other">>],
      [required |-> TRUE, defaultValue |-> <<"Other">>]>>

\* Bag-Info objects: up to MaxBagInfoKeys different keys, in the order of
\* Object.keys
BagInfoObjects ==
    UNION {{[i \in 1..n |-> <<names[i], TagSpecs[specs[i]]>>] :
               names \in {f \in [1..n -> ImportTagNames] :
                             \A i, j \in 1..n : i # j => f[i] # f[j]},
               specs \in [1..n -> 1..Len(TagSpecs)]} :
           n \in 0..MaxBagInfoKeys}

\* a profile in the standard form with these optional keys
StandardObject(present, choice, bagInfo) ==
    [key \in present \cup {"Manifests-Required", "Bag-Info"} |->
        IF key = "Bag-Info" THEN bagInfo
        ELSE IF key = "Manifests-Required" THEN <<"md5">>
        ELSE ListChoices[choice]]

InitImport ==
    /\ pathToBag = DirPath
    /\ fsys = [exists |-> FALSE, isDirectory |-> FALSE, entries |-> <<>>]
    /\ profile = NullProfile
    /\ disableSerializationCheck = FALSE
    /\ slowMotionDelay = 0
    /\ pc = "importing"
    /\ reader = NoReader
    /\ readersCreated = 0
    /\ bagRoot = Null
    /\ files = <<>>
    /\ manifestAlgorithmsFoundInBag = <<>>
    /\ tagManifestAlgorithmsFoundInBag = <<>>
    /\ errors = <<>>
    /\ hashesInProgress = 0
    /\ initialFileCount = 0
    /\ filesChecked = 0
    /\ timers = <<>> /\ streams = {} /\ hashers = {}
    /\ events = <<>>
    /\ \E present \in SUBSET OptionalKeys, choice \in 1..Len(ListChoices),
          bagInfo \in BagInfoObjects :
          obs = [verifying |-> FALSE, obj |-> StandardObject(present, choice, bagInfo)]

\* the call of BagItUtil.profileFromStandardObject(obj)
Import ==
    /\ pc = "importing"
    /\ \E obj \in {obs.obj} : profile' = ProfileFromStandardObject(obj)
    /\ pc' = "imported"
    /\ UNCHANGED <<pathToBag, fsys, disableSerializationCheck, slowMotionDelay, reader,
                   readersCreated, bagRoot, files, manifestAlgorithmsFoundInBag,
                   tagManifestAlgorithmsFoundInBag, errors, hashesInProgress,
                   initialFileCount, filesChecked, timers, streams, hashers, events,
                   obs>>

NextImport == Import

SpecImport == InitImport /\ [][NextImport]_vars

\* C19: the import sets manifestsAllowed and tagManifestsAllowed to the six
\* algorithms, tagManifestsRequired to the empty list and tagFilesAllowed to
\* ['*'] when the key of the standard form is absent, and to the value of
\* the key when it is present
C19_ImportDefaults ==
    pc = "imported" =>
        /\ profile.manifestsAllowed =
              IF "Manifests-Allowed" \in DOMAIN obs.obj THEN obs.obj["Manifests-Allowed"]
              ELSE <<"md5", "sha1", "sha224", "sha256", "sha384", "sha512">>
        /\ profile.tagManifestsRequired =
              IF "Tag-Manifests-Required" \in DOMAIN obs.obj
              THEN obs.obj["Tag-Manifests-Required"] ELSE <<>>
        /\ profile.tagManifestsAllowed =
              IF "Tag-Manifests-Allowed" \in DOMAIN obs.obj
              THEN obs.obj["Tag-Manifests-Allowed"]
              ELSE <<"md5", "sha1", "sha224", "sha256", "sha384", "sha512">>
        /\ profile.tagFilesAllowed =
              IF "Tag-Files-Allowed" \in DOMAIN obs.obj THEN obs.obj["Tag-Files-Allowed"]
              ELSE <<<<"*">>>>

\* an import of a form with Manifests-Allowed, as an empty list, and
\* without the other three keys
C19_Witness ==
    /\ pc = "imported"
    /\ DOMAIN obs.obj = {"Manifests-Required", "Bag-Info", "Manifests-Allowed"}
    /\ obs.obj["Manifests-Allowed"] = <<>>
    /\ profile.manifestsAllowed = <<>>
    /\ profile.tagManifestsAllowed = DIGEST_ALGORITHMS
    /\ profile.tagManifestsRequired = <<>>
    /\ profile.tagFilesAllowed = <<<<STAR>>>>

\* new BagItProfile() has a definition of the tag in bag-info.txt
DefinedInBagInfo(tagName) ==
    \E i \in 1..Len(NewProfileTags) :
        NewProfileTags[i].tagName = tagName /\ NewProfileTags[i].tagFile = BagInfoTxt

\* the definitions the profile has for the tag in bag-info.txt
BagInfoDefinitions(tagName) ==
    {i \in 1..Len(profile.tags) :
        profile.tags[i].tagName = tagName /\ profile.tags[i].tagFile = BagInfoTxt}

\* every key of Bag-Info has one definition in bag-info.txt, with the
\* required and the values of the form; values of length one give the
\* default value, which else is the one given, or null
C20_OneDefinitionPerKey ==
    pc = "imported" =>
        \A k \in 1..Len(obs.obj["Bag-Info"]) :
            LET tagName == obs.obj["Bag-Info"][k][1]
                tag == obs.obj["Bag-Info"][k][2]
            IN /\ Cardinality(BagInfoDefinitions(tagName)) = 1
               /\ \A i \in BagInfoDefinitions(tagName) :
                     /\ profile.tags[i].required =
                           ("required" \in DOMAIN tag /\ tag["required"])
                     /\ profile.tags[i].values =
                           (IF "values" \in DOMAIN tag THEN tag["values"] ELSE <<>>)
                     /\ profile.tags[i].defaultValue =
                           (IF "values" \in DOMAIN tag /\ Len(tag["values"]) = 1
                            THEN tag["values"][1]
                            ELSE IF "defaultValue" \in DOMAIN tag THEN tag["defaultValue"]
                            ELSE Null)

\* the definitions of new BagItProfile() stay where they are, for their tag
\* and their tag file, and one definition is appended for each key that
\* new BagItProfile() does not define in bag-info.txt
C20_InPlaceOrAppended ==
    pc = "imported" =>
        /\ Len(profile.tags) =
              Len(NewProfileTags)
              + Cardinality({k \in 1..Len(obs.obj["Bag-Info"]) :
                                ~DefinedInBagInfo(obs.obj["Bag-Info"][k][1])})
        /\ \A i \in 1..Len(NewProfileTags) :
              /\ i <= Len(profile.tags)
              /\ profile.tags[i].tagName = NewProfileTags[i].tagName
              /\ profile.tags[i].tagFile = NewProfileTags[i].tagFile

\* C20: after the import every key K of Bag-Info has exactly one definition
\* in bag-info.txt with the imported required and values; a definition of K
\* in bag-info.txt that was there is updated in place, else one is appended,
\* so the tags are the default tags and one for each key that is not among
\* them; values of length one set the default value, which else is null
\* unless given
C20_ImportBagInfo == C20_OneDefinitionPerKey /\ C20_InPlaceOrAppended

-----------------------------------------------------------------------------
(* BagItUtil.profileToStandardObject, and the import of what it returns, on
   profiles that have the tags of new BagItProfile() or none of them *)

\* BagItProfile.firstMatchingTag("tagName", tagName): where it is in tags,
\* 0 for undefined
FirstMatchingTag(tags, tagName) ==
    IF FindMatchingTags(tags, tagName) = {} THEN 0
    ELSE CHOOSE i \in FindMatchingTags(tags, tagName) :
            \A j \in FindMatchingTags(tags, tagName) : i <= j

\* p.firstMatchingTag("tagName", "Bagging-Software").values = ["DART", "TRAD"]
\* the tags of p after the assignment
WithBaggingSoftwareValues(tags) ==
    [tags EXCEPT ![FirstMatchingTag(tags, "Bagging-Software")].values =
                     <<<<"DART">>, <<"TRAD">>>>]

\* obj["Bag-Info"][tagDef.tagName] as the loop leaves it
ExportedTag(tagDef) ==
    [key \in (IF tagDef.values # <<>> THEN {"required", "values"} ELSE {"required"}) |->
        IF key = "required" THEN tagDef.required ELSE tagDef.values]

\* obj[key] = value for an object kept as the sequence of its keys with
\* their values: a new key goes to the end, a key that is there keeps its
\* place
ObjPut(obj, key, value) ==
    IF \E i \in 1..Len(obj) : obj[i][1] = key
    THEN [i \in 1..Len(obj) |-> IF obj[i][1] = key THEN <<key, value>> ELSE obj[i]]
    ELSE Append(obj, <<key, value>>)

\* the body of the loop over p.tags: out holds obj["Bag-Info"] and
\* obj["Tag-Files-Required"]
ExportTag(out, tagDef) ==
    IF tagDef.tagFile = BagItTxt THEN out
    ELSE IF tagDef.tagFile = BagInfoTxt
    THEN [out EXCEPT !.bagInfo = ObjPut(@, tagDef.tagName, ExportedTag(tagDef))]
    ELSE IF tagDef.required = TRUE /\ ~Contains(out.tagFilesRequired, tagDef.tagFile)
    THEN [out EXCEPT !.tagFilesRequired = Append(@, tagDef.tagFile)]
    ELSE out

RECURSIVE ExportTags(_, _)
\* the loop over p.tags
ExportTags(out, tags) ==
    IF tags = <<>> THEN out
    ELSE CHOOSE after \in
            {ExportTags(next, Tail(tags)) : next \in {ExportTag(out, Head(tags))}} : TRUE

\* the object profileToStandardObject builds from the lists of p and from
\* these tags
ExportedObject(p, tags) ==
    LET out == ExportTags([bagInfo |-> <<>>, tagFilesRequired |-> <<>>], tags)
    IN [key \in {"Manifests-Required", "Manifests-Allowed", "Tag-Manifests-Required",
                 "Tag-Manifests-Allowed", "Tag-Files-Allowed", "Bag-Info",
                 "Tag-Files-Required"} |->
           CASE key = "Manifests-Required" -> p.manifestsRequired
             [] key = "Manifests-Allowed" -> p.manifestsAllowed
             [] key = "Tag-Manifests-Required" -> p.tagManifestsRequired
             [] key = "Tag-Manifests-Allowed" -> p.tagManifestsAllowed
             [] key = "Tag-Files-Allowed" -> p.tagFilesAllowed
             [] key = "Bag-Info" -> out.bagInfo
             [] key = "Tag-Files-Required" -> out.tagFilesRequired]

\* BagItUtil.profileToStandardObject(p): the object it returns and the tags
\* it leaves in p, or the TypeError of the assignment to a property of
\* undefined
ProfileToStandardObject(p) ==
    IF FirstMatchingTag(p.tags, "Bagging-Software") = 0
    THEN [threw |-> TRUE, tags |-> p.tags, obj |-> <<>>]
    ELSE [threw |-> FALSE,
          tags |-> WithBaggingSoftwareValues(p.tags),
          obj |-> ExportedObject(p, WithBaggingSoftwareValues(p.tags))]

MaxExportTags == 2

\* the tag files, tag names and values of the tag definitions tried
ExportTagFiles == {BagItTxt, BagInfoTxt, CustomTagPath, OtherTagPath}
ExportTagNames == {"Bagging-Software", "Custom-Tag"}
ExportTagValues == {<<>>, <<<<"Acme">>>>}

\* a tag definition whose default value is the only value it allows, and
\* null when it allows none or several
ExportTagDefinition(tagFile, tagName, required, values) ==
    [tagFile |-> tagFile, tagName |-> tagName, required |-> required, values |-> values,
     defaultValue |-> IF Len(values) = 1 THEN values[1] ELSE Null]

ExportTagDefinitions ==
    {ExportTagDefinition(tagFile, tagName, required, values) :
        tagFile \in ExportTagFiles, tagName \in ExportTagNames,
        required \in BOOLEAN, values \in ExportTagValues}

\* the tags of new BagItProfile(), those of bag-info.txt without a default
\* value
ExportDefaultTags ==
    [i \in 1..Len(NewProfileTags) |->
        IF NewProfileTags[i].tagFile = BagInfoTxt
        THEN [NewProfileTags[i] EXCEPT !.defaultValue = Null]
        ELSE NewProfileTags[i]]

\* profiles to export: these tags first, and then up to MaxExportTags more
ExportProfiles(first) ==
    UNION {{[isNull |-> FALSE,
             manifestsRequired |-> <<"md5">>,
             manifestsAllowed |-> allowed,
             tagManifestsRequired |-> <<>>,
             tagManifestsAllowed |-> <<"sha256", "md5">>,
             tagFilesAllowed |-> <<<<STAR>>>>,
             tags |-> first \o more] :
               allowed \in {<<>>, <<"sha256", "md5">>},
               more \in [1..n -> ExportTagDefinitions]} :
           n \in 0..MaxExportTags}

InitExport ==
    /\ pathToBag = DirPath
    /\ fsys = [exists |-> FALSE, isDirectory |-> FALSE, entries |-> <<>>]
    /\ \E first \in {<<>>, ExportDefaultTags} : profile \in ExportProfiles(first)
    /\ disableSerializationCheck = FALSE
    /\ slowMotionDelay = 0
    /\ pc = "exporting"
    /\ reader = NoReader
    /\ readersCreated = 0
    /\ bagRoot = Null
    /\ files = <<>>
    /\ manifestAlgorithmsFoundInBag = <<>>
    /\ tagManifestAlgorithmsFoundInBag = <<>>
    /\ errors = <<>>
    /\ hashesInProgress = 0
    /\ initialFileCount = 0
    /\ filesChecked = 0
    /\ timers = <<>> /\ streams = {} /\ hashers = {}
    /\ events = <<>>
    /\ obs = [verifying |-> FALSE, p |-> profile, obj |-> <<>>]

\* the call of BagItUtil.profileToStandardObject(p); obs.p keeps p as it
\* was before the call
Export ==
    /\ pc = "exporting"
    /\ \E exported \in {ProfileToStandardObject(profile)} :
          /\ profile' = [profile EXCEPT !.tags = exported.tags]
          /\ obs' = [obs EXCEPT !.obj = exported.obj]
          /\ pc' = IF exported.threw THEN "crashed" ELSE "exported"
    /\ UNCHANGED <<pathToBag, fsys, disableSerializationCheck, slowMotionDelay, reader,
                   readersCreated, bagRoot, files, manifestAlgorithmsFoundInBag,
                   tagManifestAlgorithmsFoundInBag, errors, hashesInProgress,
                   initialFileCount, filesChecked, timers, streams, hashers, events>>

\* the call of BagItUtil.profileFromStandardObject on the object exported
ImportExported ==
    /\ pc = "exported"
    /\ \E obj \in {obs.obj} : profile' = ProfileFromStandardObject(obj)
    /\ pc' = "imported"
    /\ UNCHANGED <<pathToBag, fsys, disableSerializationCheck, slowMotionDelay, reader,
                   readersCreated, bagRoot, files, manifestAlgorithmsFoundInBag,
                   tagManifestAlgorithmsFoundInBag, errors, hashesInProgress,
                   initialFileCount, filesChecked, timers, streams, hashers, events,
                   obs>>

NextExport == Export \/ ImportExported

SpecExport == InitExport /\ [][NextExport]_vars

\* the definitions p had in bag-info.txt for the tag before the export
BagInfoTagsOf(tagName) ==
    {i \in 1..Len(obs.p.tags) :
        obs.p.tags[i].tagFile = BagInfoTxt /\ obs.p.tags[i].tagName = tagName}

\* the export returns an object
C21_Returns == pc # "crashed"

\* the keys of Bag-Info are the names of the tags of bag-info.txt, each
\* once, and under each is the required of a tag of that name, with its
\* values when it has some and without values when it has none
C21_BagInfo ==
    pc = "exported" =>
        LET bagInfo == obs.obj["Bag-Info"]
        IN /\ \A i \in 1..Len(obs.p.tags) :
                 obs.p.tags[i].tagFile = BagInfoTxt =>
                     Cardinality({k \in 1..Len(bagInfo) :
                                     bagInfo[k][1] = obs.p.tags[i].tagName}) = 1
           /\ \A k \in 1..Len(bagInfo) :
                 \E i \in BagInfoTagsOf(bagInfo[k][1]) :
                     /\ bagInfo[k][2]["required"] = obs.p.tags[i].required
                     /\ ("values" \in DOMAIN bagInfo[k][2]) = (obs.p.tags[i].values # <<>>)
                     /\ "values" \in DOMAIN bagInfo[k][2] =>
                           bagInfo[k][2]["values"] = obs.p.tags[i].values

\* the tag files other than bagit.txt and bag-info.txt in which p has a
\* required tag, in the order of their first required tag
RequiredTagFilesOf(tags) ==
    Dedup(SelectIdx([i \in 1..Len(tags) |-> tags[i].tagFile],
                    [i \in 1..Len(tags) |->
                        /\ tags[i].tagFile \notin {BagItTxt, BagInfoTxt}
                        /\ tags[i].required],
                    1))

C21_TagFilesRequired ==
    pc = "exported" => obs.obj["Tag-Files-Required"] = RequiredTagFilesOf(obs.p.tags)

\* C21: the export puts into Bag-Info exactly the tags of bag-info.txt,
\* with their required and with their values only when they have some, and
\* no tag of bagit.txt, and puts into Tag-Files-Required exactly the other
\* tag files that have a required tag, each once, in the order of their
\* first occurrence
C21_ExportTags == C21_Returns /\ C21_BagInfo /\ C21_TagFilesRequired

\* p uses only what the standard form can express: its tags are those new
\* BagItProfile() has in bagit.txt and tags of bag-info.txt, and a tag has a
\* default value only when it allows exactly one value, which is the default
Expressible(p) ==
    \A i \in 1..Len(p.tags) :
        /\ \/ p.tags[i].tagFile = BagInfoTxt
           \/ /\ i <= Len(NewProfileTags)
              /\ p.tags[i] = NewProfileTags[i]
              /\ p.tags[i].tagFile = BagItTxt
        /\ p.tags[i].tagFile = BagInfoTxt =>
              p.tags[i].defaultValue =
                  (IF Len(p.tags[i].values) = 1 THEN p.tags[i].values[1] ELSE Null)

\* C22: for every profile P that uses only what the standard form can
\* express, the import of the export of P equals P
C22_RoundTrip ==
    pc = "imported" /\ Expressible(obs.p) => profile = obs.p

-----------------------------------------------------------------------------
(* BagItProfile.chooseManifestAlgorithms on profiles that differ in the
   algorithms they require and allow *)

MaxRequired == 2

\* the lists tried as manifestsRequired and tagManifestsRequired: up to
\* MaxRequired different algorithms, in any order
RequiredLists ==
    UNION {{f \in [1..n -> {"md5", "sha256", "sha512"}] :
               \A i, j \in 1..n : i # j => f[i] # f[j]} :
           n \in 0..MaxRequired}

\* the lists tried as manifestsAllowed: any of the six algorithms
AllowedLists ==
    {SelectIdx(DIGEST_ALGORITHMS,
               [i \in 1..Len(DIGEST_ALGORITHMS) |-> DIGEST_ALGORITHMS[i] \in allowed], 1) :
        allowed \in SUBSET Range(DIGEST_ALGORITHMS)}

InitChoose ==
    /\ pathToBag = DirPath
    /\ fsys = [exists |-> FALSE, isDirectory |-> FALSE, entries |-> <<>>]
    /\ \E required \in RequiredLists, tagRequired \in RequiredLists,
          allowed \in AllowedLists :
          profile = [BaseProfile EXCEPT !.manifestsRequired = required,
                                        !.tagManifestsRequired = tagRequired,
                                        !.manifestsAllowed = allowed,
                                        !.tagManifestsAllowed = allowed]
    /\ disableSerializationCheck = FALSE
    /\ slowMotionDelay = 0
    /\ pc = "choosing"
    /\ reader = NoReader
    /\ readersCreated = 0
    /\ bagRoot = Null
    /\ files = <<>>
    /\ manifestAlgorithmsFoundInBag = <<>>
    /\ tagManifestAlgorithmsFoundInBag = <<>>
    /\ errors = <<>>
    /\ hashesInProgress = 0
    /\ initialFileCount = 0
    /\ filesChecked = 0
    /\ timers = <<>> /\ streams = {} /\ hashers = {}
    /\ events = <<>>
    /\ obs = [verifying |-> FALSE, whichType |-> "", chosen |-> <<>>]

\* the call of profile.chooseManifestAlgorithms(whichType)
Choose(whichType) ==
    /\ pc = "choosing"
    /\ obs' = [obs EXCEPT !.whichType = whichType,
                          !.chosen = ChooseManifestAlgorithms(profile, whichType)]
    /\ pc' = "chosen"
    /\ UNCHANGED <<pathToBag, fsys, profile, disableSerializationCheck, slowMotionDelay,
                   reader, readersCreated, bagRoot, files, manifestAlgorithmsFoundInBag,
                   tagManifestAlgorithmsFoundInBag, errors, hashesInProgress,
                   initialFileCount, filesChecked, timers, streams, hashers, events>>

NextChoose == \E whichType \in {"manifest", "tagmanifest"} : Choose(whichType)

SpecChoose == InitChoose /\ [][NextChoose]_vars

\* how strong the chooser takes an algorithm to be
Strength(alg) ==
    CASE alg = "sha512" -> 6 [] alg = "sha256" -> 5 [] alg = "sha384" -> 4
      [] alg = "sha224" -> 3 [] alg = "sha1" -> 2 [] alg = "md5" -> 1

\* C23: chooseManifestAlgorithms returns the algorithms that are both in
\* manifestsRequired and in tagManifestsRequired if there are any; else
\* manifestsRequired if it is not empty; else tagManifestsRequired if it is
\* not empty; else the one strongest algorithm of manifestsAllowed, in the
\* order sha512 > sha256 > sha384 > sha224 > sha1 > md5; else ['sha512'];
\* what it returns is never empty
C23_Chooser ==
    pc = "chosen" =>
        LET required == Range(profile.manifestsRequired)
            tagRequired == Range(profile.tagManifestsRequired)
            allowed == Range(profile.manifestsAllowed)
        IN /\ obs.chosen # <<>>
           /\ IF required \cap tagRequired # {}
              THEN /\ Range(obs.chosen) = required \cap tagRequired
                   /\ Len(obs.chosen) = Cardinality(required \cap tagRequired)
              ELSE IF required # {} THEN obs.chosen = profile.manifestsRequired
              ELSE IF tagRequired # {} THEN obs.chosen = profile.tagManifestsRequired
              ELSE IF allowed # {}
              THEN /\ Len(obs.chosen) = 1
                   /\ obs.chosen[1] \in allowed
                   /\ \A alg \in allowed : Strength(alg) <= Strength(obs.chosen[1])
              ELSE obs.chosen = <<"sha512">>

\* a choice among the algorithms allowed, where nothing is required: sha256
\* before sha384
C23_Witness ==
    /\ pc = "chosen"
    /\ profile.manifestsRequired = <<>>
    /\ profile.tagManifestsRequired = <<>>
    /\ profile.manifestsAllowed = <<"md5", "sha256", "sha384">>
    /\ obs.chosen = <<"sha256">>

-----------------------------------------------------------------------------
(* The profile's check of itself, in the runs of Spec *)

\* the properties of the profile that break a rule of validate()
ViolatedRules(p) ==
    {field \in {"id", "name", "acceptBagItVersion", "manifestsAllowed", "tags",
                "serialization"} :
        \/ field = "id" /\ p.id = ""
        \/ field = "name" /\ p.name = ""
        \/ field = "acceptBagItVersion" /\ Len(p.acceptBagItVersion) = 0
        \/ field = "manifestsAllowed" /\ Len(p.manifestsAllowed) = 0
        \/ field = "tags" /\ \E tagFile \in {BagItTxt, BagInfoTxt} :
                                \A i \in 1..Len(p.tags) : p.tags[i].tagFile # tagFile
        \/ field = "serialization"
              /\ p.serialization \notin {"required", "optional", "forbidden"}}

\* the errors of the Validator that begin with 'BagItProfile: '
ProfileErrorsCopied ==
    SelectIdx(errors, [i \in 1..Len(errors) |-> errors[i].kind = "BagItProfile"], 1)

-----------------------------------------------------------------------------
(* ManifestParser: the text of a manifest, character by character, as it
   arrives in chunks *)

NEWLINE == "\n"

\* the characters the regular expression \s matches, of those tried
IsSpace(c) == c \in {" ", "\t"}

RECURSIVE SplitSpacesAcc(_, _, _)
\* parts are the pieces so far, the last one still open; inSpaces says that
\* the character before was a space
SplitSpacesAcc(s, parts, inSpaces) ==
    IF s = <<>> THEN parts
    ELSE IF IsSpace(Head(s))
    THEN SplitSpacesAcc(Tail(s), IF inSpaces THEN parts ELSE Append(parts, <<>>), TRUE)
    ELSE SplitSpacesAcc(Tail(s),
                        [parts EXCEPT ![Len(parts)] = Append(@, Head(s))], FALSE)

\* line.split(/\s+/): the pieces between the runs of spaces, the empty piece
\* before a leading run and after a trailing run included
SplitSpaces(line) == SplitSpacesAcc(line, <<<<>>>>, FALSE)

RECURSIVE JoinWith(_, _)
\* parts.join(sep)
JoinWith(parts, sep) ==
    IF parts = <<>> THEN <<>>
    ELSE IF Len(parts) = 1 THEN parts[1]
    ELSE parts[1] \o <<sep>> \o JoinWith(Tail(parts), sep)

RECURSIVE TrimStart(_)
TrimStart(s) == IF s # <<>> /\ IsSpace(Head(s)) THEN TrimStart(Tail(s)) ELSE s

RECURSIVE TrimEnd(_)
TrimEnd(s) == IF s # <<>> /\ IsSpace(Last(s)) THEN TrimEnd(Front(s)) ELSE s

\* String.prototype.trim
Trim(s) == TrimEnd(TrimStart(s))

\* the key and the value the parser takes from a line:
\* parts = line.split(spaces), value = parts.shift().trim(),
\* key = parts.join(' ').trim()
ManifestLineEntry(line) ==
    <<Trim(JoinWith(Tail(SplitSpaces(line)), " ")), Trim(Head(SplitSpaces(line)))>>

RECURSIVE ParseChunkLines(_, _, _, _)
\* the loop of the 'data' listener over lines = data.split(newline), from
\* lines[i] on; st holds lastFragment and the key value collection
ParseChunkLines(st, lines, i, endsWithNewline) ==
    IF i > Len(lines) THEN st
    ELSE LET line == IF i = 1 THEN st.lastFragment \o lines[i] ELSE lines[i]
             next ==
               IF i = 1
               THEN [lastFragment |-> <<>>,
                     kv |-> IF i < Len(lines)
                            THEN KVAdd(st.kv, ManifestLineEntry(line)[1],
                                       ManifestLineEntry(line)[2])
                            ELSE st.kv]
               ELSE IF i = Len(lines) /\ ~endsWithNewline
               THEN [lastFragment |-> line, kv |-> st.kv]
               ELSE [lastFragment |-> st.lastFragment,
                     kv |-> IF i < Len(lines)
                            THEN KVAdd(st.kv, ManifestLineEntry(line)[1],
                                       ManifestLineEntry(line)[2])
                            ELSE st.kv]
         IN CHOOSE after \in
               {ParseChunkLines(n, lines, i + 1, endsWithNewline) : n \in {next}} : TRUE

\* the 'data' listener of the parser's stream
ParseChunk(st, data) ==
    ParseChunkLines(st, Split(data, NEWLINE), 1, data # <<>> /\ Last(data) = NEWLINE)

MaxTextLines == 2

\* the lines tried: a digest, one or two spaces, and a path without a
\* space, with one space or with two spaces in a row
TextDigest == <<"d", "1">>
TextSpaces == {<<" ">>, <<" ", " ">>}
TextPaths == {<<"f">>, <<"f", " ", "g">>, <<"f", " ", " ", "g">>}

TextLines ==
    {[digest |-> TextDigest, spaces |-> spaces, path |-> path] :
        spaces \in TextSpaces, path \in TextPaths}

\* the text of the lines, each ended by a newline, the last one only if
\* terminated
TextOf(lines, terminated) ==
    LET text == Flatten([k \in 1..Len(lines) |->
                            lines[k].digest \o lines[k].spaces \o lines[k].path
                            \o <<NEWLINE>>])
    IN IF terminated \/ text = <<>> THEN text ELSE Front(text)

\* the text as the stream hands it over: in one chunk, or in two, cut
\* anywhere
ChunksOf(text) ==
    {<<text>>} \cup {<<SubSeq(text, 1, cut), SubSeq(text, cut + 1, Len(text))>> :
                        cut \in 1..(Len(text) - 1)}

InitParse ==
    /\ pathToBag = DirPath
    /\ fsys = [exists |-> FALSE, isDirectory |-> FALSE, entries |-> <<>>]
    /\ profile = NullProfile
    /\ disableSerializationCheck = FALSE
    /\ slowMotionDelay = 0
    /\ pc = "parsing"
    /\ reader = NoReader
    /\ readersCreated = 0
    /\ bagRoot = Null
    /\ files = <<>>
    /\ manifestAlgorithmsFoundInBag = <<>>
    /\ tagManifestAlgorithmsFoundInBag = <<>>
    /\ errors = <<>>
    /\ hashesInProgress = 0
    /\ initialFileCount = 0
    /\ filesChecked = 0
    /\ timers = <<>> /\ streams = {} /\ hashers = {}
    /\ events = <<>>
    /\ \E n \in 1..MaxTextLines :
          \E lines \in [1..n -> TextLines], terminated \in BOOLEAN :
             \E chunks \in ChunksOf(TextOf(lines, terminated)) :
                obs = [verifying |-> FALSE, lines |-> lines, terminated |-> terminated,
                       chunks |-> chunks, next |-> 1, lastFragment |-> <<>>, kv |-> <<>>]

\* a 'data' event of the parser's stream, with the next chunk
ParserData ==
    /\ pc = "parsing"
    /\ obs.next <= Len(obs.chunks)
    /\ \E after \in {ParseChunk([lastFragment |-> obs.lastFragment, kv |-> obs.kv],
                                obs.chunks[obs.next])} :
          obs' = [obs EXCEPT !.next = @ + 1, !.lastFragment = after.lastFragment,
                             !.kv = after.kv]
    /\ UNCHANGED <<pathToBag, fsys, profile, disableSerializationCheck, slowMotionDelay,
                   pc, reader, readersCreated, bagRoot, files,
                   manifestAlgorithmsFoundInBag, tagManifestAlgorithmsFoundInBag, errors,
                   hashesInProgress, initialFileCount, filesChecked, timers, streams,
                   hashers, events>>

\* the 'end' event of the parser's stream: its listener does nothing
ParserEnd ==
    /\ pc = "parsing"
    /\ obs.next > Len(obs.chunks)
    /\ pc' = "parsed"
    /\ UNCHANGED <<pathToBag, fsys, profile, disableSerializationCheck, slowMotionDelay,
                   reader, readersCreated, bagRoot, files, manifestAlgorithmsFoundInBag,
                   tagManifestAlgorithmsFoundInBag, errors, hashesInProgress,
                   initialFileCount, filesChecked, timers, streams, hashers, events,
                   obs>>

NextParse == ParserData \/ ParserEnd

SpecParse == InitParse /\ [][NextParse]_vars

\* C25: for every line '<digest><whitespace><path>' the parser records the
\* entry path -> digest, where the path is everything after the first run
\* of whitespace, unchanged, also when it has spaces or several spaces in a
\* row
C25_ManifestLines ==
    pc = "parsed" =>
        \A k \in 1..Len(obs.lines) :
            \E i \in 1..Len(obs.kv) : obs.kv[i] = <<obs.lines[k].path, obs.lines[k].digest>>

-----------------------------------------------------------------------------
(* Bagger: copyFile and create, the queue that writes the tar entries one at
   a time, and the hashers of the files copied *)

WRITE_AS_DIR == "dir"
WRITE_AS_TAR == "tar"

MaxBaggerCalls == 3

\* the source files there are; "missing" is a path where there is none
SourceFiles ==
    <<[relPath |-> <<"s1">>, type |-> "file", bytes |-> <<"x">>],
      [relPath |-> <<"s2">>, type |-> "file", bytes |-> <<"y", "z">>]>>

SourcePaths == {<<"s1">>, <<"s2">>, <<"missing">>}

\* fs.existsSync(absSourcePath)
ExistsSync(absSourcePath) ==
    \E i \in 1..Len(fsys.entries) : fsys.entries[i].relPath = absSourcePath

SourceBytes(absSourcePath) ==
    fsys.entries[CHOOSE i \in 1..Len(fsys.entries) :
                    fsys.entries[i].relPath = absSourcePath].bytes

\* a queue that starts a worker for every task at once
WorkerMayStartAtOnce(running) ==
    TRUE

\* async.queue(writeIntoTarArchive, 1): a worker may start when fewer than
\* one is running
WorkerMayStart(running) ==
    running < 1

\* what the constructor leaves, with the things the model keeps track of:
\* calls counts the calls made, open holds the tar entries opened and not
\* yet written completely, ended the files whose reader has reached the
\* end, digestRead the files whose last hasher has given its digest to a
\* read()
NewBagger(writeAs, jobValid) ==
    [verifying |-> FALSE, writeAs |-> writeAs, jobValid |-> jobValid, calls |-> 0,
     asyncQueue |-> <<>>, running |-> 0, open |-> {}, written |-> <<>>,
     tarPacker |-> "null", tarOutputWriter |-> FALSE, outputDirInitialized |-> FALSE,
     last |-> [call |-> "new"], crash |-> "none", ended |-> {}, digestRead |-> {}]

\* Bagger.getTarPacker: the bagger with the packer and the writer of the
\* tar file, which it makes when there are none
GetTarPacker(b) ==
    IF b.tarPacker = "null"
    THEN [b EXCEPT !.tarPacker = "open", !.tarOutputWriter = TRUE]
    ELSE b

\* pack.finalize(): put off to the end of the entry that is being written
Finalize(b) ==
    IF b.tarPacker = "finalized" THEN b
    ELSE [b EXCEPT !.tarPacker = IF b.open # {} THEN "finalizing" ELSE "finalized"]

InitBagger ==
    /\ pathToBag \in {TarPath}
    /\ fsys = [exists |-> TRUE, isDirectory |-> TRUE, entries |-> SourceFiles]
    /\ profile \in {[BaseProfile EXCEPT !.manifestsRequired = algs] :
                       algs \in {<<"md5">>, <<"md5", "sha256">>}}
    /\ disableSerializationCheck = FALSE
    /\ slowMotionDelay = 0
    /\ pc = "open"
    /\ reader = NoReader
    /\ readersCreated = 0
    /\ bagRoot = Null
    /\ files = <<>>
    /\ manifestAlgorithmsFoundInBag = <<>>
    /\ tagManifestAlgorithmsFoundInBag = <<>>
    /\ errors = <<>>
    /\ hashesInProgress = 0
    /\ initialFileCount = 0
    /\ filesChecked = 0
    /\ timers = <<>> /\ streams = {} /\ hashers = {}
    /\ events = <<>>
    /\ \E writeAs \in {WRITE_AS_DIR, WRITE_AS_TAR}, jobValid \in BOOLEAN :
          obs = NewBagger(writeAs, jobValid)

BaggerUnchanged ==
    UNCHANGED <<pathToBag, fsys, profile, disableSerializationCheck, slowMotionDelay,
                reader, readersCreated, bagRoot, manifestAlgorithmsFoundInBag,
                tagManifestAlgorithmsFoundInBag, hashesInProgress, initialFileCount,
                filesChecked, timers>>

\* create() when the validation of the job has failed, with the output
\* directory made first
AfterFailedValidationWithDir(b) ==
    [b EXCEPT !.outputDirInitialized = TRUE, !.calls = @ + 1,
              !.last = [call |-> "create", returned |-> "false"]]

\* create() when the validation of the job has failed: the bagger it
\* leaves
AfterFailedValidation(b) ==
    [b EXCEPT !.calls = @ + 1, !.last = [call |-> "create", returned |-> "false"]]

\* Bagger.create()
Create ==
    /\ pc = "open"
    /\ obs.calls < MaxBaggerCalls
    /\ IF ~obs.jobValid
       THEN /\ errors' = Append(errors, [kind |-> "SeeJobValidationErrors"])
            /\ obs' = AfterFailedValidation(obs)
            /\ UNCHANGED events
       ELSE /\ errors' = errors
            /\ \E initialized \in {[obs EXCEPT !.outputDirInitialized = TRUE]} :
                  IF obs.writeAs = WRITE_AS_TAR
                  THEN /\ obs' = [Finalize(GetTarPacker(initialized)) EXCEPT
                                     !.calls = @ + 1,
                                     !.last = [call |-> "create",
                                               returned |-> "undefined"]]
                       /\ events' = Append(events, [op |-> "finalize"])
                  ELSE /\ obs' = [initialized EXCEPT
                                     !.calls = @ + 1,
                                     !.last = [call |-> "create",
                                               returned |-> "undefined"]]
                       /\ UNCHANGED events
    /\ UNCHANGED <<pc, files, streams, hashers>>
    /\ BaggerUnchanged

\* Bagger._getCryptoHashes(bagItFile), for the file at this place in files:
\* a hasher for each algorithm of manifestsRequired, by its place in it
GetCryptoHashes(file) == {<<file, k>> : k \in 1..Len(profile.manifestsRequired)}

\* Bagger.copyFile(absSourcePath, relDestPath)
CopyFile(absSourcePath) ==
    /\ pc = "open"
    /\ obs.calls < MaxBaggerCalls
    /\ IF ~ExistsSync(absSourcePath)
       THEN /\ errors' = Append(errors, [kind |-> "FileDoesNotExist",
                                         path |-> absSourcePath])
            /\ obs' = [obs EXCEPT !.calls = @ + 1,
                                  !.last = [call |-> "copyFile", absSourcePath |-> absSourcePath,
                                            threw |-> TRUE]]
            /\ UNCHANGED <<files, streams>>
       ELSE /\ errors' = errors
            /\ files' = Append(files, [absSourcePath |-> absSourcePath,
                                       relDestPath |-> <<"data", SLASH>> \o absSourcePath,
                                       bytes |-> SourceBytes(absSourcePath),
                                       checksums |-> <<>>])
            /\ IF obs.writeAs = WRITE_AS_DIR
               THEN /\ streams' = streams \cup {Len(files) + 1}
                    /\ obs' = [obs EXCEPT !.calls = @ + 1,
                                          !.last = [call |-> "copyFile",
                                                    absSourcePath |-> absSourcePath,
                                                    threw |-> FALSE]]
               ELSE /\ streams' = streams
                    /\ obs' = [GetTarPacker(obs) EXCEPT
                                  !.calls = @ + 1,
                                  !.asyncQueue = Append(@, Len(files) + 1),
                                  !.last = [call |-> "copyFile",
                                            absSourcePath |-> absSourcePath,
                                            threw |-> FALSE]]
    /\ UNCHANGED <<pc, hashers, events>>
    /\ BaggerUnchanged

\* the queue starts its worker, writeIntoTarArchive(data, done), on the
\* task at its head.  pack.entry(header, done) throws when an entry is
\* open and returns undefined when the packer is finalized, and then
\* data.reader.pipe(writer) throws a TypeError.
WriteIntoTarArchive ==
    /\ pc = "open"
    /\ obs.asyncQueue # <<>>
    /\ WorkerMayStart(obs.running)
    /\ \E file \in {Head(obs.asyncQueue)} :
          IF obs.open # {}
          THEN /\ obs' = [obs EXCEPT !.asyncQueue = Tail(@), !.running = @ + 1,
                                     !.crash = "already piping an entry"]
               /\ pc' = "crashed"
               /\ UNCHANGED <<streams, events>>
          ELSE IF obs.tarPacker = "finalized"
          THEN /\ obs' = [obs EXCEPT !.asyncQueue = Tail(@), !.running = @ + 1,
                                     !.crash = "TypeError"]
               /\ pc' = "crashed"
               /\ UNCHANGED <<streams, events>>
          ELSE /\ obs' = [obs EXCEPT !.asyncQueue = Tail(@), !.running = @ + 1,
                                     !.open = @ \cup {file}]
               /\ streams' = streams \cup {file}
               /\ events' = Append(events, [op |-> "entry", file |-> file])
               /\ pc' = pc
    /\ UNCHANGED <<files, errors, hashers>>
    /\ BaggerUnchanged

\* the reader of a file reaches the end of the file: the hashers and the
\* writer it is piped into are ended, and each hasher will emit 'finish'
SourceEnd(file) ==
    /\ pc = "open"
    /\ file \in streams
    /\ streams' = streams \ {file}
    /\ hashers' = hashers \cup GetCryptoHashes(file)
    /\ obs' = [obs EXCEPT !.ended = @ \cup {file}]
    /\ UNCHANGED <<pc, files, errors, events>>
    /\ BaggerUnchanged

\* the entry of the packer has taken all the bytes of the file: it calls
\* done, which frees the worker of the queue, and a finalize() that was put
\* off takes place
EntryDone(file) ==
    /\ pc = "open"
    /\ file \in obs.open
    /\ file \notin streams
    /\ obs' = [obs EXCEPT !.open = @ \ {file}, !.running = @ - 1,
                          !.written = Append(@, file),
                          !.tarPacker = IF @ = "finalizing" THEN "finalized" ELSE @]
    /\ events' = Append(events, [op |-> "written", file |-> file])
    /\ UNCHANGED <<pc, files, errors, streams, hashers>>
    /\ BaggerUnchanged

\* the 'finish' listener of the k-th hasher of a file.  hash and algorithm
\* are declared with var in the loop of _getCryptoHashes, so every listener
\* of the file sees the last hasher and the last algorithm: it ends that
\* hasher and reads it.  A read gives the digest once; whether the last
\* hasher has its digest ready when another hasher finishes is not
\* determined.
HashFinish(file, k) ==
    /\ pc = "open"
    /\ <<file, k>> \in hashers
    /\ LET algorithm == Last(profile.manifestsRequired)
           digest == HexDigest(algorithm, files[file].bytes)
       IN \E read \in (IF file \in obs.digestRead THEN {Null}
                       ELSE IF k = Len(profile.manifestsRequired) THEN {digest}
                       ELSE {digest, Null}) :
             /\ files' = [files EXCEPT ![file].checksums =
                             [alg \in DOMAIN @ \cup {algorithm} |->
                                 IF alg = algorithm THEN read ELSE @[alg]]]
             /\ obs' = [obs EXCEPT !.digestRead =
                           IF read = Null THEN @ ELSE @ \cup {file}]
    /\ hashers' = hashers \ {<<file, k>>}
    /\ UNCHANGED <<pc, errors, streams, events>>
    /\ BaggerUnchanged

NextBagger ==
    \/ Create
    \/ \E absSourcePath \in SourcePaths : CopyFile(absSourcePath)
    \/ WriteIntoTarArchive
    \/ \E file \in streams : SourceEnd(file)
    \/ \E file \in obs.open : EntryDone(file)
    \/ \E h \in hashers : HashFinish(h[1], h[2])

SpecBagger == InitBagger /\ [][NextBagger]_vars

\* C26: the tar entries are written one at a time: at most one entry is
\* being written at any time, the packer is never asked for an entry while
\* one is open, and the entry of a queued file is opened only after the
\* entry opened before it has been written completely
C26_OneEntryAtATime ==
    /\ Cardinality(obs.open) <= 1
    /\ obs.crash # "already piping an entry"
    /\ \A p, q \in 1..Len(events) :
          q < p /\ events[p].op = "entry" /\ events[q].op = "entry" =>
              \E r \in (q + 1)..(p - 1) :
                  events[r] = [op |-> "written", file |-> events[q].file]

\* two files copied into a tar file, the entry of the second opened after
\* the first was written
C26_Witness ==
    /\ obs.writeAs = WRITE_AS_TAR
    /\ Len(events) >= 4
    /\ SubSeq(events, 1, 4) = <<[op |-> "entry", file |-> 1],
                                [op |-> "written", file |-> 1],
                                [op |-> "entry", file |-> 2],
                                [op |-> "written", file |-> 2]>>

\* the files of the bagger whose reader has reached the end and whose
\* hashers have all finished
StreamedToTheEnd ==
    {file \in obs.ended : \A k \in 1..Len(profile.manifestsRequired) :
                             <<file, k>> \notin hashers}

\* C27: once a file copied has streamed to the end, its checksums hold, for
\* every algorithm of manifestsRequired, the digest of that algorithm over
\* the bytes of the file, also when two algorithms are required
C27_Checksums ==
    \A file \in StreamedToTheEnd :
        \A k \in 1..Len(profile.manifestsRequired) :
            LET algorithm == profile.manifestsRequired[k]
            IN /\ algorithm \in DOMAIN files[file].checksums
               /\ files[file].checksums[algorithm]
                     = HexDigest(algorithm, files[file].bytes)

\* C28: the packer is finalized only after every entry queued has been
\* written completely, and nothing is added after finalize, whatever the
\* sequence of copyFile and create calls: once finalize has been called no
\* file waits in the queue, no entry is open, and no worker fails on the
\* finalized packer
C28_FinalizeLast ==
    obs.tarPacker \in {"finalizing", "finalized"} =>
        /\ obs.asyncQueue = <<>>
        /\ obs.open = {}
        /\ obs.crash = "none"

\* a step that is a call of create() or of copyFile
IsCall(call) == obs'.calls = obs.calls + 1 /\ obs'.last.call = call

\* C29: when the validation of the job fails, create() records an error,
\* returns false and makes neither the output directory nor the tar file;
\* copyFile with a source that does not exist records one error and throws,
\* and adds nothing to files nor to the queue of files to write
C29_ErrorsTerminal ==
    [][/\ IsCall("create") /\ ~obs.jobValid =>
             /\ Len(errors') = Len(errors) + 1
             /\ obs'.last.returned = "false"
             /\ obs'.outputDirInitialized = obs.outputDirInitialized
             /\ obs'.tarOutputWriter = obs.tarOutputWriter
             /\ obs'.tarPacker = obs.tarPacker
       /\ IsCall("copyFile") /\ ~ExistsSync(obs'.last.absSourcePath) =>
             /\ Len(errors') = Len(errors) + 1
             /\ obs'.last.threw
             /\ files' = files
             /\ obs'.asyncQueue = obs.asyncQueue
             /\ streams' = streams /\ hashers' = hashers]_vars

\* a create() that failed and then a copyFile of a path where there is no
\* file: two errors, no output directory, no tar file, no file, nothing to
\* write
C29_Witness ==
    /\ ~obs.jobValid
    /\ obs.calls = 2
    /\ obs.last = [call |-> "copyFile", absSourcePath |-> <<"missing">>, threw |-> TRUE]
    /\ errors = <<[kind |-> "SeeJobValidationErrors"],
                  [kind |-> "FileDoesNotExist", path |-> <<"missing">>]>>
    /\ ~obs.outputDirInitialized /\ ~obs.tarOutputWriter
    /\ files = <<>> /\ obs.asyncQueue = <<>>

-----------------------------------------------------------------------------
(* Entries that are not files, in the runs of Spec *)

\* the step is Validator._readEntry on an entry that is not a file
ReadsNonRegularEntry ==
    /\ pc = "reading"
    /\ reader.next <= Len(fsys.entries)
    /\ reader'.next = reader.next + 1
    /\ fsys.entries[reader.next].type # "file"

\* C30: an entry that is not a regular file is skipped and the read does
\* not fail: it is not added to files, gets no hasher and no parser, adds no
\* error, and leaves no stream or timer behind that would keep the reader
\* from the next entry
C30_NonRegularSkipped ==
    [][ReadsNonRegularEntry =>
           /\ files' = files
           /\ hashers' = hashers /\ hashesInProgress' = hashesInProgress
           /\ errors' = errors
           /\ streams' = streams /\ timers' = timers
           /\ pc' = pc]_vars

\* a tar file with a symbolic link and a directory in it, read to the end:
\* the files are the regular files, and nothing is reported
C30_Witness ==
    /\ pc = "done"
    /\ reader.kind = "TarReader"
    /\ \E i \in 1..Len(fsys.entries) : fsys.entries[i].type = "symlink"
    /\ \E i \in 1..Len(fsys.entries) : fsys.entries[i].type = "dir"
    /\ Len(files) = Cardinality({i \in 1..Len(fsys.entries) :
                                    fsys.entries[i].type = "file"})
    /\ \A i \in 1..Len(files) : files[i].relDestPath # <<"data", SLASH, "link">>
    /\ errors = <<>>

-----------------------------------------------------------------------------
(* The order of the events of a run, in the runs of Spec *)

\* the positions of the 'task' events of one kind
TasksOf(op) ==
    {i \in 1..Len(events) : events[i].name = "task" /\ events[i].op = op}

\* Validator._readBag has started its reader
ReachedReadPass == reader.pass = "read"

\* 'validateStart' is the first event of the run
C31_StartsWithValidateStart ==
    events # <<>> => events[1] = EvValidateStart

\* the task 'start' precedes every 'add', and the 'add' of a file precedes
\* its 'checksum'
C31_AddAfterStartBeforeChecksum ==
    /\ \A i \in TasksOf("add") : \E j \in TasksOf("start") : j < i
    /\ \A i \in TasksOf("checksum") :
          \E j \in TasksOf("add") :
             j < i /\ CleanEntryRelPath(events[j].relPath) = events[i].relPath

\* the task 'read' is emitted once, after every 'add' and every 'checksum'
\* and before the verification
C31_ReadOnceAfterTheFiles ==
    /\ Cardinality(TasksOf("read")) <= 1
    /\ obs.verifying => TasksOf("read") # {}
    /\ \A r \in TasksOf("read") :
          \A i \in TasksOf("add") \cup TasksOf("checksum") : i < r

\* 'end' is the last event
C31_EndLast ==
    \A i \in 1..Len(events) : events[i] = EvEnd => i = Len(events)

\* the percent of successive 'checksum' tasks, filesChecked of
\* initialFileCount, never decreases and never exceeds 100
C31_PercentMonotone ==
    /\ \A i \in TasksOf("checksum") : events[i].done <= events[i].total
    /\ \A i, j \in TasksOf("checksum") :
          i < j => events[i].done * events[j].total <= events[j].done * events[i].total

-----------------------------------------------------------------------------
(* validate() called a second time on the same Validator *)

\* the first run has emitted 'end' and validate() was not called again
FirstRunEnded ==
    /\ pc = "done"
    /\ Last(events) = EvEnd
    /\ "firstErrors" \notin DOMAIN obs

\* Validator.validate called again after the 'end' of the first run; the
\* errors of the first run are noted
ValidateAgain ==
    /\ FirstRunEnded
    /\ ValidateCall
    /\ obs' = [verifying |-> FALSE, firstErrors |-> errors]

\* the cases of Spec without a delay, and the tar files with a short one
InitTwice ==
    /\ Init
    /\ \/ slowMotionDelay = 0
       \/ slowMotionDelay = 25 /\ pathToBag = TarPath

NextTwice ==
    \/ Next
    \/ ValidateAgain

SpecTwice == InitTwice /\ [][NextTwice]_vars

SecondRunEnded ==
    /\ pc = "done"
    /\ Last(events) = EvEnd
    /\ "firstErrors" \in DOMAIN obs

\* C32: a second validate() on the same Validator, after the 'end' of the
\* first run and with the same bag and profile, ends with the errors list of
\* the first run: nothing of the first run leaks into the second
C32_SecondRunSameErrors ==
    SecondRunEnded => errors = obs.firstErrors

-----------------------------------------------------------------------------
(* What the parsers have written when the verification starts *)

\* the regular files of the bag that Validator._readFile pipes into a parser
ParsedEntries ==
    {i \in 1..Len(fsys.entries) :
        /\ fsys.entries[i].type = "file"
        /\ HasParser(NewBagItFile(CleanEntryRelPath(fsys.entries[i].relPath),
                                  fsys.entries[i].size))}

-----------------------------------------------------------------------------
(* ManifestParser: the chunks of the stream and the last line, in the runs
   of SpecParse *)

\* the collection the parser has after the whole text arrived as one chunk
ParsedFromOneChunk(text) ==
    ParseChunk([lastFragment |-> <<>>, kv |-> <<>>], text).kv

\* C34: the parser is independent of chunking: however the text of a
\* manifest is cut into chunks, also with a chunk that has no newline or
\* that ends in the middle of a line, the collection after the end of the
\* stream is the one obtained from the whole text in a single chunk
C34_ChunkingIndependent ==
    pc = "parsed" =>
        obs.kv = ParsedFromOneChunk(TextOf(obs.lines, obs.terminated))

\* the text of line k of the manifest, without its newline
LineText(k) ==
    obs.lines[k].digest \o obs.lines[k].spaces \o obs.lines[k].path

\* C35: after the stream has ended the collection has an entry for every
\* line of the manifest, the last line included when no newline ends it
C35_EveryLineRecorded ==
    pc = "parsed" =>
        /\ Len(obs.kv) = Len(obs.lines)
        /\ \A k \in 1..Len(obs.lines) : obs.kv[k] = ManifestLineEntry(LineText(k))

-----------------------------------------------------------------------------
(* What the export leaves of the profile, in the runs of SpecExport *)

\* C36: the export is read-only: after profileToStandardObject has returned,
\* the profile it was given is as it was before the call, with every tag
\* definition's values, required flag and other fields unchanged
C36_ExportReadOnly ==
    pc = "exported" => profile = obs.p

-----------------------------------------------------------------------------
(* The tag files of the definitions after an import, in the runs of
   SpecImport *)

\* C37: the import never changes the tag file of a definition that was
\* there: after it the definitions of new BagItProfile() are in the tag
\* files they were in, those of bagit.txt (BagIt-Version and
\* Tag-File-Character-Encoding) included, also when Bag-Info has a key with
\* the name of a tag of another tag file
C37_TagFilesKept ==
    pc = "imported" =>
        \A i \in 1..Len(NewProfileTags) :
            /\ i <= Len(profile.tags)
            /\ profile.tags[i].tagName = NewProfileTags[i].tagName
            /\ profile.tags[i].tagFile = NewProfileTags[i].tagFile

-----------------------------------------------------------------------------
(* The arrays that imported profiles hold: obs.heap is the arrays there
   are, the first one being Constants.DIGEST_ALGORITHMS, and a profile holds
   the places of its lists in it *)

MaxImports == 2
MaxPushes == 2

DigestAlgorithmsRef == 1

\* obj[key] || Constants.DIGEST_ALGORITHMS, for an obj that was parsed from
\* JSON: the array of the key when the key is there, which no one else
\* holds, and else the array of the constant itself.  next is the place
\* the array of the key has in the heap.
OrDigestAlgorithms(present, next) ==
    IF present THEN next ELSE DigestAlgorithmsRef

InitShared ==
    /\ pathToBag = DirPath
    /\ fsys = [exists |-> FALSE, isDirectory |-> FALSE, entries |-> <<>>]
    /\ profile = NullProfile
    /\ disableSerializationCheck = FALSE
    /\ slowMotionDelay = 0
    /\ pc = "importing"
    /\ reader = NoReader
    /\ readersCreated = 0
    /\ bagRoot = Null
    /\ files = <<>>
    /\ manifestAlgorithmsFoundInBag = <<>>
    /\ tagManifestAlgorithmsFoundInBag = <<>>
    /\ errors = <<>>
    /\ hashesInProgress = 0
    /\ initialFileCount = 0
    /\ filesChecked = 0
    /\ timers = <<>> /\ streams = {} /\ hashers = {}
    /\ events = <<>>
    /\ obs = [verifying |-> FALSE, heap |-> <<DIGEST_ALGORITHMS>>, profiles |-> <<>>,
              pushes |-> 0, pushedTo |-> 0]

SharedUnchanged ==
    UNCHANGED <<pathToBag, fsys, profile, disableSerializationCheck, slowMotionDelay, pc,
                reader, readersCreated, bagRoot, files, manifestAlgorithmsFoundInBag,
                tagManifestAlgorithmsFoundInBag, errors, hashesInProgress,
                initialFileCount, filesChecked, timers, streams, hashers, events>>

\* BagItUtil.profileFromStandardObject on an object parsed from JSON, as
\* far as manifestsAllowed and tagManifestsAllowed go: the arrays of the
\* keys that are present are new in the heap (the place of an absent key
\* is left to an array that no one holds)
ImportLists(manifestsAllowed, tagManifestsAllowed) ==
    /\ Len(obs.profiles) < MaxImports
    /\ LET hasM == manifestsAllowed # Undefined
           hasT == tagManifestsAllowed # Undefined
           mRef == Len(obs.heap) + 1
           tRef == Len(obs.heap) + 2
           p == [manifestsAllowed |-> OrDigestAlgorithms(hasM, mRef),
                 tagManifestsAllowed |-> OrDigestAlgorithms(hasT, tRef)]
       IN obs' = [obs EXCEPT
                     !.heap = @ \o <<IF hasM THEN manifestsAllowed ELSE DIGEST_ALGORITHMS,
                                     IF hasT THEN tagManifestsAllowed
                                     ELSE DIGEST_ALGORITHMS>>,
                     !.profiles = Append(@, p),
                     !.pushedTo = 0]
    /\ SharedUnchanged

\* profile.manifestsAllowed.push(alg) on the i-th profile imported
PushManifestsAllowed(i, alg) ==
    /\ i \in 1..Len(obs.profiles)
    /\ obs.pushes < MaxPushes
    /\ obs' = [obs EXCEPT
                  !.heap[obs.profiles[i].manifestsAllowed] = Append(@, alg),
                  !.pushes = @ + 1,
                  !.pushedTo = i]
    /\ SharedUnchanged

NextShared ==
    \/ \E m, t \in {Undefined} \cup Range(ListChoices) : ImportLists(m, t)
    \/ \E i \in 1..MaxImports, alg \in {"crc32"} : PushManifestsAllowed(i, alg)

SpecShared == InitShared /\ [][NextShared]_vars

\* C38: imported profiles share no list that can be modified: a push to
\* manifestsAllowed of a profile changes neither its tagManifestsAllowed,
\* nor Constants.DIGEST_ALGORITHMS, nor a list of another imported profile
C38_NoSharedLists ==
    [][\A i \in 1..Len(obs.profiles) :
          obs'.pushes = obs.pushes + 1 /\ obs'.pushedTo = i =>
             /\ obs'.heap[DigestAlgorithmsRef] = obs.heap[DigestAlgorithmsRef]
             /\ obs'.heap[obs.profiles[i].tagManifestsAllowed] =
                   obs.heap[obs.profiles[i].tagManifestsAllowed]
             /\ \A j \in 1..Len(obs.profiles) :
                   j # i =>
                      /\ obs'.heap[obs.profiles[j].manifestsAllowed] =
                            obs.heap[obs.profiles[j].manifestsAllowed]
                      /\ obs'.heap[obs.profiles[j].tagManifestsAllowed] =
                            obs.heap[obs.profiles[j].tagManifestsAllowed]]_vars

-----------------------------------------------------------------------------
(* RunningJobsController: the listeners on the child process of a job and
   what they render.  obs holds the listeners of the process, by the
   controller they render for, Context.childProcesses, and the page. *)

MaxInits == 3
MaxMessages == 3

OP_SUCCEEDED == "succeeded"
OP_FAILED == "failed"

SMALL_BLUE_SPINNER == "spinner"
GREEN_SMILEY == "green"
RED_ANGRY_FACE == "red"

\* the job-run page and the dashboard, which both derive from
\* RunningJobsController
Controllers == {"JobRunController", "DashboardController"}

DartProcessId == "p1"

\* what the child process sends
ChildMessages ==
    {[op |-> "upload", action |-> "start", status |-> ""],
     [op |-> "upload", action |-> "completed", status |-> OP_SUCCEEDED],
     [op |-> "upload", action |-> "completed", status |-> OP_FAILED],
     [op |-> "package", action |-> "completed", status |-> OP_SUCCEEDED],
     [op |-> "validate", action |-> "completed", status |-> OP_FAILED],
     [op |-> "other", action |-> "start", status |-> ""]}

\* the page as Templates.partials['dartProcess'] renders it: no icon yet
NewPage == [packageInfo |-> "", validationInfo |-> "", uploadInfo |-> "", outcome |-> ""]

\* markSuccess and markFailed, as far as the icon goes
MarkedIcon(status) == IF status = OP_SUCCEEDED THEN GREEN_SMILEY ELSE RED_ANGRY_FACE

\* renderChildProcOutput(data, dartProcess) of a controller, with
\* renderPackageInfo, renderValidationInfo and renderUploadInfo: d is the
\* page, how many completed uploads each controller has and the count of the
\* messages rendered
RenderChildProcOutput(d, controller, data) ==
    LET counted == [d EXCEPT !.rendered = @ + 1]
    IN IF data.op = "package" /\ data.action = "completed"
       THEN [counted EXCEPT !.page.packageInfo = MarkedIcon(data.status)]
       ELSE IF data.op = "validate" /\ data.action = "completed"
       THEN [counted EXCEPT !.page.validationInfo = MarkedIcon(data.status)]
       ELSE IF data.op = "upload" /\ data.action = "start"
       THEN [counted EXCEPT !.page.uploadInfo = SMALL_BLUE_SPINNER]
       ELSE IF data.op = "upload" /\ data.action = "completed"
       THEN IF data.status = OP_SUCCEEDED
            THEN [counted EXCEPT !.page.uploadInfo = GREEN_SMILEY,
                                 !.completedUploads[controller] = @ + 1]
            ELSE [counted EXCEPT !.page.uploadInfo = RED_ANGRY_FACE]
       ELSE counted

\* renderOutcome(dartProcess, code)
RenderOutcome(d, code) ==
    [d EXCEPT !.outcomes = @ + 1,
              !.page.outcome = IF code = 0 THEN GREEN_SMILEY ELSE RED_ANGRY_FACE]

\* the listeners are left as they are
KeepListeners(listeners) ==
    listeners

\* process.removeAllListeners(eventName)
RemoveAllListeners(listeners) ==
    <<>>

InitRunning ==
    /\ pathToBag = DirPath
    /\ fsys = [exists |-> FALSE, isDirectory |-> FALSE, entries |-> <<>>]
    /\ profile = NullProfile
    /\ disableSerializationCheck = FALSE
    /\ slowMotionDelay = 0
    /\ pc = "forked"
    /\ reader = NoReader
    /\ readersCreated = 0
    /\ bagRoot = Null
    /\ files = <<>>
    /\ manifestAlgorithmsFoundInBag = <<>>
    /\ tagManifestAlgorithmsFoundInBag = <<>>
    /\ errors = <<>>
    /\ hashesInProgress = 0
    /\ initialFileCount = 0
    /\ filesChecked = 0
    /\ timers = <<>> /\ streams = {} /\ hashers = {}
    /\ events = <<>>
    /\ obs = [verifying |-> FALSE,
              listeners |-> [message |-> <<>>, exit |-> <<>>],
              childProcesses |-> {},
              inits |-> 0, sent |-> 0, rendered |-> 0, outcomes |-> 0,
              page |-> NewPage,
              completedUploads |-> [c \in Controllers |-> 0],
              uploadFailed |-> FALSE]

RunningUnchanged ==
    UNCHANGED <<pathToBag, fsys, profile, disableSerializationCheck, slowMotionDelay,
                reader, readersCreated, bagRoot, files, manifestAlgorithmsFoundInBag,
                tagManifestAlgorithmsFoundInBag, errors, hashesInProgress,
                initialFileCount, filesChecked, timers, streams, hashers, events>>

\* RunningJobsController.initRunningJobDisplay(dartProcess) of a
\* controller: showDivs renders the page anew, and the listeners of the
\* process are replaced by those of this controller
InitRunningJobDisplay(controller) ==
    [obs EXCEPT
        !.page = NewPage,
        !.listeners =
            [message |-> Append(RemoveAllListeners(@.message), controller),
             exit |-> Append(RemoveAllListeners(@.exit), controller)],
        !.inits = @ + 1]

\* the job is run: the child process is forked, its display is set up and
\* it is put into Context.childProcesses
RunJob ==
    /\ pc = "forked"
    /\ pc' = "running"
    /\ \E shown \in {InitRunningJobDisplay("JobRunController")} :
          obs' = [shown EXCEPT !.childProcesses = @ \cup {DartProcessId}]
    /\ RunningUnchanged

\* the user comes to a page that shows the running job
ShowRunningJob(controller) ==
    /\ pc \in {"running", "exited"}
    /\ obs.inits < MaxInits
    /\ obs' = InitRunningJobDisplay(controller)
    /\ UNCHANGED pc
    /\ RunningUnchanged

RECURSIVE EmitMessage(_, _, _)
\* process.emit('message', data): the listeners are called in the order
\* they were added
EmitMessage(d, listeners, data) ==
    IF listeners = <<>> THEN d
    ELSE CHOOSE after \in
            {EmitMessage(next, Tail(listeners), data) :
                next \in {RenderChildProcOutput(d, Head(listeners), data)}} : TRUE

RECURSIVE EmitExit(_, _, _)
\* process.emit('exit', code): each listener deletes the process from
\* Context.childProcesses and renders the outcome
EmitExit(d, listeners, code) ==
    IF listeners = <<>> THEN d
    ELSE CHOOSE after \in
            {EmitExit(next, Tail(listeners), code) :
                next \in {RenderOutcome([d EXCEPT !.childProcesses =
                                                      @ \ {DartProcessId}], code)}} : TRUE

\* the child process sends a message
ChildMessage(data) ==
    /\ pc = "running"
    /\ obs.sent < MaxMessages
    /\ \E sent \in {[obs EXCEPT !.sent = @ + 1,
                                !.uploadFailed =
                                    @ \/ (/\ data.op = "upload"
                                          /\ data.action = "completed"
                                          /\ data.status # OP_SUCCEEDED)]} :
          obs' = EmitMessage(sent, obs.listeners.message, data)
    /\ UNCHANGED pc
    /\ RunningUnchanged

\* the child process exits
ChildExit(code) ==
    /\ pc = "running"
    /\ pc' = "exited"
    /\ obs' = EmitExit(obs, obs.listeners.exit, code)
    /\ RunningUnchanged

NextRunning ==
    \/ RunJob
    \/ \E controller \in Controllers : ShowRunningJob(controller)
    \/ \E data \in ChildMessages : ChildMessage(data)
    \/ \E code \in {0, 1} : ChildExit(code)

SpecRunning == InitRunning /\ [][NextRunning]_vars

\* C39: after any sequence of initRunningJobDisplay calls for a child
\* process the process has exactly one 'message' listener and one 'exit'
\* listener, so every message of the child is rendered once and the outcome
\* of the exit is rendered once, and after 'exit' the process is no longer
\* in Context.childProcesses
C39_OneListenerPerEvent ==
    obs.inits > 0 =>
        /\ Len(obs.listeners.message) = 1
        /\ Len(obs.listeners.exit) = 1
        /\ obs.rendered = obs.sent
        /\ obs.outcomes = (IF pc = "exited" THEN 1 ELSE 0)
        /\ pc = "exited" => DartProcessId \notin obs.childProcesses

\* the user went from the job-run page to the dashboard and back while the
\* child sent its messages, and the child has exited
C39_Witness ==
    /\ pc = "exited"
    /\ obs.inits = MaxInits
    /\ obs.listeners.message = <<"JobRunController">>
    /\ obs.sent = MaxMessages /\ obs.rendered = MaxMessages
    /\ obs.completedUploads["DashboardController"] > 0
    /\ obs.outcomes = 1
    /\ obs.childProcesses = {}

\* C40: a failed upload is never hidden by a later success: once a
\* 'completed' message of an upload with a status other than success has
\* been received, the upload section stays marked as failed for the rest of
\* the job
C40_FailedUploadStays ==
    obs.uploadFailed => obs.page.uploadInfo = RED_ANGRY_FACE

====
